---- MODULE Spec2Model ----
(***************************************************************************)
(* pyitc: the JSON-RPC query wrappers of pyitc/blockchain.py and the unit  *)
(* converters of pyitc/numbers.py.                                         *)
(*                                                                         *)
(* Python values are tagged records, Python integers are arbitrary         *)
(* precision (a sign and a sequence of decimal digits), Python strings are *)
(* sequences of one-character strings, and the evaluation of an expression *)
(* yields either a returned value or a raised exception.                   *)
(***************************************************************************)
EXTENDS Integers, Sequences, FiniteSets, TLC

(***************************************************************************)
(* Bounds of the model.                                                    *)
(***************************************************************************)
\* longest string over 0, 1 and x the endpoint sends as a "result"
MaxStrLen == 4

\* the whole amounts passed to the converters reach 10^MaxPow + 1
MaxPow == 30

(***************************************************************************)
(* Arbitrary-precision naturals: digit sequences, most significant digit   *)
(* first, no leading zero except for zero itself (<<0>>).                  *)
(***************************************************************************)
Front(s) == IF Len(s) = 0 THEN <<>> ELSE SubSeq(s, 1, Len(s) - 1)

Last(s) == s[Len(s)]

RECURSIVE StripZeros(_)
StripZeros(s) ==
    IF Len(s) <= 1 THEN (IF Len(s) = 0 THEN <<0>> ELSE s)
    ELSE IF s[1] = 0 THEN StripZeros(Tail(s)) ELSE s

RECURSIVE Zeros(_)
Zeros(n) == IF n <= 0 THEN <<>> ELSE <<0>> \o Zeros(n - 1)

RECURSIVE NatToDigits(_)
NatToDigits(n) == IF n < 10 THEN <<n>> ELSE Append(NatToDigits(n \div 10), n % 10)

RECURSIVE BigAddC(_, _, _)
BigAddC(a, b, c) ==
    IF c >= 0 /\ Len(a) = 0 /\ Len(b) = 0 THEN (IF c = 0 THEN <<>> ELSE <<c>>)
    ELSE LET da == IF Len(a) = 0 THEN 0 ELSE Last(a)
             db == IF Len(b) = 0 THEN 0 ELSE Last(b)
             s  == da + db + c
         IN  Append(BigAddC(Front(a), Front(b), s \div 10), s % 10)

BigAdd(a, b) == StripZeros(BigAddC(a, b, 0))

RECURSIVE BigMulSmallC(_, _, _)
BigMulSmallC(a, k, c) ==
    IF c >= 0 /\ Len(a) = 0 THEN (IF c = 0 THEN <<>> ELSE NatToDigits(c))
    ELSE LET p == Last(a) * k + c
         IN  Append(BigMulSmallC(Front(a), k, p \div 10), p % 10)

\* a * k for a small factor k (0 <= k <= 4096)
BigMulSmall(a, k) == StripZeros(BigMulSmallC(a, k, 0))

\* (the test of acc makes the evaluator compute each partial sum when it is
\* formed instead of nesting them)
RECURSIVE BigMulAcc(_, _, _)
BigMulAcc(a, b, acc) ==
    IF Len(b) = 0 \/ Len(acc) = 0 THEN acc
    ELSE BigMulAcc(a, Tail(b), BigAdd(StripZeros(acc \o <<0>>), BigMulSmall(a, b[1])))

\* schoolbook product of two naturals
BigMul(a, b) == BigMulAcc(a, b, <<0>>)

RECURSIVE DigitsToNat(_)
DigitsToNat(d) == IF Len(d) = 0 THEN 0 ELSE DigitsToNat(Front(d)) * 10 + Last(d)

(***************************************************************************)
(* Python values.                                                          *)
(***************************************************************************)
PyNone == [t |-> "NoneType"]

PyBoolV(b) == [t |-> "bool", b |-> b]

\* an int: sign and magnitude
PyIntV(neg, mag) == [t |-> "int", neg |-> neg /\ mag # <<0>>, mag |-> mag]

\* the int of a small natural of the model
IntOf(n) == PyIntV(FALSE, NatToDigits(n))

PyStrV(s) == [t |-> "str", s |-> s]

PyDictV(f) == [t |-> "dict", d |-> f]

(***************************************************************************)
(* Outcomes of evaluating an expression or calling a function.             *)
(***************************************************************************)
Return(v) == [kind |-> "return", val |-> v]

Raise(e) == [kind |-> "raise", exc |-> e]

\* an exception object: its class, its constructor arguments, and the class
\* of the exception it was raised from (__cause__), "" when there is none
Exc(type, args, cause) == [type |-> type, args |-> args, cause |-> cause]

KeyError(key) == Exc("KeyError", <<key>>, "")

TypeError == Exc("TypeError", <<>>, "")

(***************************************************************************)
(* Python built-ins the wrappers and converters use.                       *)
(***************************************************************************)
LowerDigits == <<"0", "1", "2", "3", "4", "5", "6", "7", "8", "9",
                 "a", "b", "c", "d", "e", "f">>

UpperDigits == <<"0", "1", "2", "3", "4", "5", "6", "7", "8", "9",
                 "A", "B", "C", "D", "E", "F">>

IsDigitIn(c, base) == \E i \in 1..base : LowerDigits[i] = c \/ UpperDigits[i] = c

DigitVal(c) == (CHOOSE i \in 1..16 : LowerDigits[i] = c \/ UpperDigits[i] = c) - 1

DigitChar(d) == LowerDigits[d + 1]

\* left-to-right accumulation of the digits of a numeral: acc * base + digit
RECURSIVE AccumulateDigits(_, _, _)
AccumulateDigits(s, base, acc) ==
    IF Len(s) = 0 \/ Len(acc) = 0 THEN acc
    ELSE AccumulateDigits(Tail(s), base,
                          BigAdd(BigMulSmall(acc, base), NatToDigits(DigitVal(s[1]))))

\* the numeral parser behind int(str) and int(str, base): an optional sign,
\* for base 16 an optional "0x"/"0X" prefix, then at least one digit of the base
ParseInt(s, base) ==
    LET signed   == Len(s) > 0 /\ s[1] \in {"+", "-"}
        neg      == signed /\ s[1] = "-"
        s1       == IF signed THEN Tail(s) ELSE s
        prefixed == base = 16 /\ Len(s1) >= 2 /\ s1[1] = "0" /\ s1[2] \in {"x", "X"}
        s2       == IF prefixed THEN SubSeq(s1, 3, Len(s1)) ELSE s1
    IN  IF Len(s2) = 0 \/ \E i \in 1..Len(s2) : ~IsDigitIn(s2[i], base)
        THEN Raise(Exc("ValueError", <<>>, ""))
        ELSE Return(PyIntV(neg, AccumulateDigits(s2, base, <<0>>)))

RECURSIVE BigDivSmallAcc(_, _, _, _)
BigDivSmallAcc(a, k, rem, out) ==
    IF Len(a) = 0 \/ rem < 0 \/ Len(out) < 0 THEN out
    ELSE LET cur == rem * 10 + a[1]
         IN  BigDivSmallAcc(Tail(a), k, cur % k, Append(out, cur \div k))

\* floor(a / k) for a small divisor k
BigDivSmall(a, k) == StripZeros(BigDivSmallAcc(a, k, 0, <<>>))

Pow2 == <<2, 4, 8, 16, 32, 64, 128, 256, 512, 1024, 2048, 4096>>

\* a * 2^n, twelve bits at a time
RECURSIVE BigShiftLeft(_, _)
BigShiftLeft(a, n) ==
    IF n <= 0 \/ Len(a) = 0 THEN a
    ELSE IF n >= 12 THEN BigShiftLeft(BigMulSmall(a, 4096), n - 12)
    ELSE BigMulSmall(a, Pow2[n])

\* floor(a / 2^n), twelve bits at a time
RECURSIVE BigShiftRight(_, _)
BigShiftRight(a, n) ==
    IF n <= 0 \/ Len(a) = 0 THEN a
    ELSE IF n >= 12 THEN BigShiftRight(BigDivSmall(a, 4096), n - 12)
    ELSE BigDivSmall(a, Pow2[n])

\* a float is the binary64 value m * 2^e (m odd or zero) together with the
\* digits and decimal-point position of its shortest round-tripping decimal
\* numeral 0.d1d2..dn * 10^decpt
PyFloatV(neg, m, e, digits, decpt) ==
    [t |-> "float", neg |-> neg, m |-> m, e |-> e, digits |-> digits, decpt |-> decpt]

\* int(float): truncation toward zero of the binary value
PyIntOfFloat(f) ==
    PyIntV(f.neg, IF f.e >= 0 THEN BigShiftLeft(f.m, f.e) ELSE BigShiftRight(f.m, 0 - f.e))

\* int(x)
PyInt1(r) ==
    IF r.kind = "raise" THEN r
    ELSE CASE r.val.t = "int"   -> Return(r.val)
           [] r.val.t = "bool"  -> Return(IntOf(IF r.val.b THEN 1 ELSE 0))
           [] r.val.t = "float" -> Return(PyIntOfFloat(r.val))
           [] r.val.t = "str"   -> ParseInt(r.val.s, 10)
           [] OTHER             -> Raise(TypeError)

\* int(x, base)
PyInt2(r, base) ==
    IF r.kind = "raise" THEN r
    ELSE IF r.val.t = "str" THEN ParseInt(r.val.s, base)
    ELSE Raise(TypeError)

\* bool(x): truth value testing, defined for every value
PyBool(r) ==
    IF r.kind = "raise" THEN r
    ELSE CASE r.val.t = "NoneType" -> Return(PyBoolV(FALSE))
           [] r.val.t = "bool"     -> Return(r.val)
           [] r.val.t = "int"      -> Return(PyBoolV(r.val.mag # <<0>>))
           [] r.val.t = "float"    -> Return(PyBoolV(r.val.m # <<0>>))
           [] r.val.t = "str"      -> Return(PyBoolV(Len(r.val.s) > 0))
           [] r.val.t = "list"     -> Return(PyBoolV(Len(r.val.l) > 0))
           [] r.val.t = "dict"     -> Return(PyBoolV(DOMAIN r.val.d # {}))

\* x[key] for a string key
GetItem(r, key) ==
    IF r.kind = "raise" THEN r
    ELSE IF r.val.t = "dict"
         THEN IF key \in DOMAIN r.val.d THEN Return(r.val.d[key]) ELSE Raise(KeyError(key))
         ELSE Raise(TypeError)

\* try: r  except types as exception: raise handler from exception
TryExcept(r, types, handler) ==
    IF r.kind = "raise" /\ r.exc.type \in types
    THEN Raise([handler EXCEPT !.cause = r.exc.type])
    ELSE r

\* a statement sequence: r, then next when r did not raise
Then(r, next) == IF r.kind = "raise" THEN r ELSE next

(***************************************************************************)
(* The collaborators of blockchain.py: constants.py, exceptions.py and     *)
(* rpc/request.py.                                                         *)
(***************************************************************************)
DEFAULT_ENDPOINT == "http://localhost:9500"

DEFAULT_TIMEOUT == 30

\* InvalidRPCReplyError( method, endpoint )
InvalidRPCReplyError(method, endpoint) == Exc("InvalidRPCReplyError", <<method, endpoint>>, "")

\* What the transport does with one POST: the round trip exceeds the timeout,
\* the connection fails, the status is not a success, the body is not JSON,
\* or the body decodes to a JSON value.
NetFailure(kind) == [kind |-> kind, value |-> PyNone]

NetJson(v) == [kind |-> "json", value |-> v]

\* a dispatcher that itself rejects a decoded body without "result"
rpc_request_requires_result(method, params, endpoint, timeout, net) ==
    LET request == [id |-> 1, jsonrpc |-> "2.0", method |-> method, params |-> params]
        post    == [url |-> endpoint, timeout |-> timeout, json |-> request]
    IN  [sent |-> <<post>>,
         outcome |->
            CASE net.kind = "timeout" -> Raise(Exc("Timeout", <<endpoint>>, ""))
              [] net.kind \in {"refused", "status"} ->
                     Raise(Exc("RequestFailed", <<endpoint, net.kind>>, ""))
              [] net.kind = "garbage" -> Raise(Exc("MalformedResponse", <<endpoint>>, ""))
              [] net.kind = "json" ->
                     IF net.value.t = "dict" /\ "result" \notin DOMAIN net.value.d
                     THEN Raise(Exc("MalformedResponse", <<endpoint>>, ""))
                     ELSE Return(net.value)]

\* a dispatcher that reports an expired timeout as a failed request
rpc_request_timeout_as_failure(method, params, endpoint, timeout, net) ==
    LET request == [id |-> 1, jsonrpc |-> "2.0", method |-> method, params |-> params]
        post    == [url |-> endpoint, timeout |-> timeout, json |-> request]
    IN  [sent |-> <<post>>,
         outcome |->
            CASE net.kind \in {"timeout", "refused", "status"} ->
                     Raise(Exc("RequestFailed", <<endpoint, net.kind>>, ""))
              [] net.kind = "garbage" -> Raise(Exc("MalformedResponse", <<endpoint>>, ""))
              [] net.kind = "json" -> Return(net.value)]

\* the dispatcher: one POST of the JSON-RPC 2.0 envelope (fixed id 1), typed
\* errors for transport failures, and the full decoded body as its value
rpc_request(method, params, endpoint, timeout, net) ==
    LET request == [id |-> 1, jsonrpc |-> "2.0", method |-> method, params |-> params]
        post    == [url |-> endpoint, timeout |-> timeout, json |-> request]
    IN  [sent |-> <<post>>,
         outcome |->
            CASE net.kind = "timeout" -> Raise(Exc("Timeout", <<endpoint>>, ""))
              [] net.kind \in {"refused", "status"} ->
                     Raise(Exc("RequestFailed", <<endpoint, net.kind>>, ""))
              [] net.kind = "garbage" -> Raise(Exc("MalformedResponse", <<endpoint>>, ""))
              [] net.kind = "json" -> Return(net.value)]

(***************************************************************************)
(* The domain wrappers of blockchain.py.  Each takes its arguments in the  *)
(* order of its signature, and net, what the transport does with its       *)
(* request; it yields the POSTs made and the outcome of the call.          *)
(***************************************************************************)
\* blockchain.py 43-49
get_bad_blocks(endpoint, timeout, net) ==
    LET method == "itcv2_getCurrentBadBlocks"
        rpc    == rpc_request(method, <<>>, endpoint, timeout, net)
    IN  [sent |-> rpc.sent,
         outcome |-> TryExcept(GetItem(rpc.outcome, "result"),
                               {"KeyError"},
                               InvalidRPCReplyError(method, endpoint))]

\* chain_id with an except clause that catches every exception
chain_id_catch_all(endpoint, timeout, net) ==
    LET method == "itcv2_chainId"
        rpc    == rpc_request(method, <<>>, endpoint, timeout, net)
        data   == GetItem(rpc.outcome, "result")
    IN  [sent |-> rpc.sent,
         outcome |-> IF data.kind = "raise"
                     THEN Raise(Exc("InvalidRPCReplyError", <<method, endpoint>>, data.exc.type))
                     ELSE data]

\* blockchain.py 75-80
chain_id(endpoint, timeout, net) ==
    LET method == "itcv2_chainId"
        rpc    == rpc_request(method, <<>>, endpoint, timeout, net)
    IN  [sent |-> rpc.sent,
         outcome |-> TryExcept(GetItem(rpc.outcome, "result"),
                               {"KeyError"},
                               InvalidRPCReplyError(method, endpoint))]

\* blockchain.py 137-142
get_node_metadata(endpoint, timeout, net) ==
    LET method == "itcv2_getNodeMetadata"
        rpc    == rpc_request(method, <<>>, endpoint, timeout, net)
    IN  [sent |-> rpc.sent,
         outcome |-> TryExcept(GetItem(rpc.outcome, "result"),
                               {"KeyError"},
                               InvalidRPCReplyError(method, endpoint))]

\* blockchain.py 178-184
get_peer_info(endpoint, timeout, net) ==
    LET method == "itcv2_getPeerInfo"
        rpc    == rpc_request(method, <<>>, endpoint, timeout, net)
    IN  [sent |-> rpc.sent,
         outcome |-> TryExcept(GetItem(rpc.outcome, "result"),
                               {"KeyError"},
                               InvalidRPCReplyError(method, endpoint))]

\* blockchain.py 214-219
protocol_version(endpoint, timeout, net) ==
    LET method == "itcv2_protocolVersion"
        rpc    == rpc_request(method, <<>>, endpoint, timeout, net)
    IN  [sent |-> rpc.sent,
         outcome |-> TryExcept(GetItem(rpc.outcome, "result"),
                               {"KeyError"},
                               InvalidRPCReplyError(method, endpoint))]

\* get_num_peers reading the count with int() and no base
get_num_peers_base10(endpoint, timeout, net) ==
    LET method == "net_peerCount"
        rpc    == rpc_request(method, <<>>, endpoint, timeout, net)
    IN  [sent |-> rpc.sent,
         outcome |-> TryExcept(PyInt1(GetItem(rpc.outcome, "result")),
                               {"KeyError", "TypeError"},
                               InvalidRPCReplyError(method, endpoint))]

\* blockchain.py 249-258
get_num_peers(endpoint, timeout, net) ==
    LET method == "net_peerCount"
        rpc    == rpc_request(method, <<>>, endpoint, timeout, net)
    IN  [sent |-> rpc.sent,
         outcome |-> TryExcept(PyInt2(GetItem(rpc.outcome, "result"), 16),
                               {"KeyError", "TypeError"},
                               InvalidRPCReplyError(method, endpoint))]

\* get_version converting a "result" that is not a string with int(x)
get_version_native_number(endpoint, timeout, net) ==
    LET method == "net_version"
        rpc    == rpc_request(method, <<>>, endpoint, timeout, net)
        value  == GetItem(rpc.outcome, "result")
    IN  [sent |-> rpc.sent,
         outcome |-> TryExcept(IF value.kind = "return" /\ value.val.t \in {"int", "float"}
                                   THEN PyInt1(value)
                                   ELSE PyInt2(value, 16),
                               {"KeyError", "TypeError"},
                               InvalidRPCReplyError(method, endpoint))]

\* blockchain.py 288-297
get_version(endpoint, timeout, net) ==
    LET method == "net_version"
        rpc    == rpc_request(method, <<>>, endpoint, timeout, net)
    IN  [sent |-> rpc.sent,
         outcome |-> TryExcept(PyInt2(GetItem(rpc.outcome, "result"), 16),
                               {"KeyError", "TypeError"},
                               InvalidRPCReplyError(method, endpoint))]

\* blockchain.py 323-331
in_sync(endpoint, timeout, net) ==
    LET method == "itcv2_inSync"
        rpc    == rpc_request(method, <<>>, endpoint, timeout, net)
    IN  [sent |-> rpc.sent,
         outcome |-> TryExcept(PyBool(GetItem(rpc.outcome, "result")),
                               {"KeyError", "TypeError"},
                               InvalidRPCReplyError(method, endpoint))]

\* blockchain.py 360-368
beacon_in_sync(endpoint, timeout, net) ==
    LET method == "itcv2_beaconInSync"
        rpc    == rpc_request(method, <<>>, endpoint, timeout, net)
    IN  [sent |-> rpc.sent,
         outcome |-> TryExcept(PyBool(GetItem(rpc.outcome, "result")),
                               {"KeyError", "TypeError"},
                               InvalidRPCReplyError(method, endpoint))]

\* get_staking_epoch reading the epoch key of get_prestaking_epoch
get_staking_epoch_other_key(endpoint, timeout, net) ==
    LET method == "itcv2_getNodeMetadata"
        rpc    == rpc_request(method, <<>>, endpoint, timeout, net)
        data   == GetItem(rpc.outcome, "result")
    IN  [sent |-> rpc.sent,
         outcome |-> TryExcept(PyInt1(GetItem(GetItem(data, "chain-config"), "prestaking-epoch")),
                               {"KeyError", "TypeError"},
                               InvalidRPCReplyError(method, endpoint))]

\* get_staking_epoch that asks the endpoint again when its first try fails
get_staking_epoch_retry(endpoint, timeout, net) ==
    LET method == "itcv2_getNodeMetadata"
        rpc    == rpc_request(method, <<>>, endpoint, timeout, net)
        data   == GetItem(rpc.outcome, "result")
        first  == TryExcept(PyInt1(GetItem(GetItem(data, "chain-config"), "staking-epoch")),
                            {"KeyError", "TypeError"},
                            InvalidRPCReplyError(method, endpoint))
    IN  [sent |-> IF first.kind = "raise" THEN rpc.sent \o rpc.sent ELSE rpc.sent,
         outcome |-> first]

\* blockchain.py 402-409
get_staking_epoch(endpoint, timeout, net) ==
    LET method == "itcv2_getNodeMetadata"
        rpc    == rpc_request(method, <<>>, endpoint, timeout, net)
        data   == GetItem(rpc.outcome, "result")
    IN  [sent |-> rpc.sent,
         outcome |-> TryExcept(PyInt1(GetItem(GetItem(data, "chain-config"), "staking-epoch")),
                               {"KeyError", "TypeError"},
                               InvalidRPCReplyError(method, endpoint))]

\* get_prestaking_epoch asking for a method named after itself
get_prestaking_epoch_own_method(endpoint, timeout, net) ==
    LET method == "itcv2_getPrestakingEpoch"
        rpc    == rpc_request(method, <<>>, endpoint, timeout, net)
        data   == GetItem(rpc.outcome, "result")
    IN  [sent |-> rpc.sent,
         outcome |-> TryExcept(PyInt1(GetItem(GetItem(data, "chain-config"), "prestaking-epoch")),
                               {"KeyError", "TypeError"},
                               InvalidRPCReplyError(method, endpoint))]

\* blockchain.py 444-451
get_prestaking_epoch(endpoint, timeout, net) ==
    LET method == "itcv2_getNodeMetadata"
        rpc    == rpc_request(method, <<>>, endpoint, timeout, net)
        data   == GetItem(rpc.outcome, "result")
    IN  [sent |-> rpc.sent,
         outcome |-> TryExcept(PyInt1(GetItem(GetItem(data, "chain-config"), "prestaking-epoch")),
                               {"KeyError", "TypeError"},
                               InvalidRPCReplyError(method, endpoint))]

\* get_shard reading the field with dict.get, which yields None when absent
get_shard_get(endpoint, timeout, net) ==
    LET method == "itcv2_getNodeMetadata"
        rpc    == rpc_request(method, <<>>, endpoint, timeout, net)
        data   == GetItem(rpc.outcome, "result")
        field  == GetItem(data, "shard-id")
    IN  [sent |-> rpc.sent,
         outcome |-> TryExcept(IF field.kind = "raise" /\ field.exc.type = "KeyError"
                                  /\ data.kind = "return"
                               THEN Return(PyNone) ELSE field,
                               {"KeyError"},
                               InvalidRPCReplyError(method, endpoint))]

\* blockchain.py 481-487
get_shard(endpoint, timeout, net) ==
    LET method == "itcv2_getNodeMetadata"
        rpc    == rpc_request(method, <<>>, endpoint, timeout, net)
    IN  [sent |-> rpc.sent,
         outcome |-> TryExcept(GetItem(GetItem(rpc.outcome, "result"), "shard-id"),
                               {"KeyError"},
                               InvalidRPCReplyError(method, endpoint))]

\* blockchain.py 520-526
get_sharding_structure(endpoint, timeout, net) ==
    LET method == "itcv2_getShardingStructure"
        rpc    == rpc_request(method, <<>>, endpoint, timeout, net)
    IN  [sent |-> rpc.sent,
         outcome |-> TryExcept(GetItem(rpc.outcome, "result"),
                               {"KeyError"},
                               InvalidRPCReplyError(method, endpoint))]

\* blockchain.py 559-565
get_leader_address(endpoint, timeout, net) ==
    LET method == "itcv2_getLeader"
        rpc    == rpc_request(method, <<>>, endpoint, timeout, net)
    IN  [sent |-> rpc.sent,
         outcome |-> TryExcept(GetItem(rpc.outcome, "result"),
                               {"KeyError"},
                               InvalidRPCReplyError(method, endpoint))]

\* is_last_block querying the default endpoint whatever endpoint it was given
is_last_block_default_endpoint(block_num, endpoint, timeout, net) ==
    LET method == "itcv2_isLastBlock"
        params == <<block_num>>
        rpc    == rpc_request(method, params, DEFAULT_ENDPOINT, timeout, net)
    IN  [sent |-> rpc.sent,
         outcome |-> TryExcept(PyBool(GetItem(rpc.outcome, "result")),
                               {"KeyError", "TypeError"},
                               InvalidRPCReplyError(method, endpoint))]

\* blockchain.py 597-609
is_last_block(block_num, endpoint, timeout, net) ==
    LET method == "itcv2_isLastBlock"
        params == <<block_num>>
        rpc    == rpc_request(method, params, endpoint, timeout, net)
    IN  [sent |-> rpc.sent,
         outcome |-> TryExcept(PyBool(GetItem(rpc.outcome, "result")),
                               {"KeyError", "TypeError"},
                               InvalidRPCReplyError(method, endpoint))]

\* blockchain.py 641-653
epoch_last_block(epoch, endpoint, timeout, net) ==
    LET method == "itcv2_epochLastBlock"
        params == <<epoch>>
        rpc    == rpc_request(method, params, endpoint, timeout, net)
    IN  [sent |-> rpc.sent,
         outcome |-> TryExcept(PyInt1(GetItem(rpc.outcome, "result")),
                               {"KeyError", "TypeError"},
                               InvalidRPCReplyError(method, endpoint))]

\* blockchain.py 683-689
get_circulating_supply(endpoint, timeout, net) ==
    LET method == "itcv2_getCirculatingSupply"
        rpc    == rpc_request(method, <<>>, endpoint, timeout, net)
    IN  [sent |-> rpc.sent,
         outcome |-> TryExcept(GetItem(rpc.outcome, "result"),
                               {"KeyError"},
                               InvalidRPCReplyError(method, endpoint))]

\* get_total_supply with a return statement in front of the lookup
get_total_supply_returning(endpoint, timeout, net) ==
    LET method == "itcv2_getTotalSupply"
        rpc    == rpc_request(method, <<>>, endpoint, timeout, net)
    IN  [sent |-> rpc.sent,
         outcome |-> TryExcept(GetItem(rpc.outcome, "result"),
                               {"KeyError"},
                               InvalidRPCReplyError(method, endpoint))]

\* get_total_supply with no except clause
get_total_supply_uncaught(endpoint, timeout, net) ==
    LET method == "itcv2_getTotalSupply"
        rpc    == rpc_request(method, <<>>, endpoint, timeout, net)
    IN  [sent |-> rpc.sent,
         outcome |-> Then(GetItem(rpc.outcome, "result"), Return(PyNone))]

\* blockchain.py 719-725
get_total_supply(endpoint, timeout, net) ==
    LET method == "itcv2_getTotalSupply"
        rpc    == rpc_request(method, <<>>, endpoint, timeout, net)
    IN  [sent |-> rpc.sent,
         outcome |-> TryExcept(Then(GetItem(rpc.outcome, "result"), Return(PyNone)),
                               {"KeyError"},
                               InvalidRPCReplyError(method, endpoint))]

\* blockchain.py 755-763
get_block_number(endpoint, timeout, net) ==
    LET method == "itcv2_blockNumber"
        rpc    == rpc_request(method, <<>>, endpoint, timeout, net)
    IN  [sent |-> rpc.sent,
         outcome |-> TryExcept(PyInt1(GetItem(rpc.outcome, "result")),
                               {"KeyError", "TypeError"},
                               InvalidRPCReplyError(method, endpoint))]

\* blockchain.py 793-801
get_current_epoch(endpoint, timeout, net) ==
    LET method == "itcv2_getEpoch"
        rpc    == rpc_request(method, <<>>, endpoint, timeout, net)
    IN  [sent |-> rpc.sent,
         outcome |-> TryExcept(PyInt1(GetItem(rpc.outcome, "result")),
                               {"KeyError", "TypeError"},
                               InvalidRPCReplyError(method, endpoint))]

\* blockchain.py 838-844
get_last_cross_links(endpoint, timeout, net) ==
    LET method == "itcv2_getLastCrossLinks"
        rpc    == rpc_request(method, <<>>, endpoint, timeout, net)
    IN  [sent |-> rpc.sent,
         outcome |-> TryExcept(GetItem(rpc.outcome, "result"),
                               {"KeyError"},
                               InvalidRPCReplyError(method, endpoint))]

\* blockchain.py 874-882
get_gas_price(endpoint, timeout, net) ==
    LET method == "itcv2_gasPrice"
        rpc    == rpc_request(method, <<>>, endpoint, timeout, net)
    IN  [sent |-> rpc.sent,
         outcome |-> TryExcept(PyInt1(GetItem(rpc.outcome, "result")),
                               {"KeyError", "TypeError"},
                               InvalidRPCReplyError(method, endpoint))]

\* blockchain.py 933-939
get_latest_header(endpoint, timeout, net) ==
    LET method == "itcv2_latestHeader"
        rpc    == rpc_request(method, <<>>, endpoint, timeout, net)
    IN  [sent |-> rpc.sent,
         outcome |-> TryExcept(GetItem(rpc.outcome, "result"),
                               {"KeyError"},
                               InvalidRPCReplyError(method, endpoint))]

\* blockchain.py 971-981
get_header_by_number(block_num, endpoint, timeout, net) ==
    LET method == "itcv2_getHeaderByNumber"
        params == <<block_num>>
        rpc    == rpc_request(method, params, endpoint, timeout, net)
    IN  [sent |-> rpc.sent,
         outcome |-> TryExcept(GetItem(rpc.outcome, "result"),
                               {"KeyError"},
                               InvalidRPCReplyError(method, endpoint))]

\* blockchain.py 1031-1037
get_latest_chain_headers(endpoint, timeout, net) ==
    LET method == "itcv2_getLatestChainHeaders"
        rpc    == rpc_request(method, <<>>, endpoint, timeout, net)
    IN  [sent |-> rpc.sent,
         outcome |-> TryExcept(GetItem(rpc.outcome, "result"),
                               {"KeyError"},
                               InvalidRPCReplyError(method, endpoint))]

\* blockchain.py 1110-1128
get_block_by_number(block_num, full_tx, include_tx, include_staking_tx, include_signers, endpoint, timeout, net) ==
    LET method == "itcv2_getBlockByNumber"
        params == <<block_num,
                     PyDictV([inclTx |-> include_tx, fullTx |-> full_tx, inclStaking |-> include_staking_tx, withSigners |-> include_signers])>>
        rpc    == rpc_request(method, params, endpoint, timeout, net)
    IN  [sent |-> rpc.sent,
         outcome |-> TryExcept(GetItem(rpc.outcome, "result"),
                               {"KeyError"},
                               InvalidRPCReplyError(method, endpoint))]

\* blockchain.py 1170-1188
get_block_by_hash(block_hash, full_tx, include_tx, include_staking_tx, include_signers, endpoint, timeout, net) ==
    LET method == "itcv2_getBlockByHash"
        params == <<block_hash,
                     PyDictV([inclTx |-> include_tx, fullTx |-> full_tx, inclStaking |-> include_staking_tx, withSigners |-> include_signers])>>
        rpc    == rpc_request(method, params, endpoint, timeout, net)
    IN  [sent |-> rpc.sent,
         outcome |-> TryExcept(GetItem(rpc.outcome, "result"),
                               {"KeyError"},
                               InvalidRPCReplyError(method, endpoint))]

\* blockchain.py 1223-1235
get_block_transaction_count_by_number(block_num, endpoint, timeout, net) ==
    LET method == "itcv2_getBlockTransactionCountByNumber"
        params == <<block_num>>
        rpc    == rpc_request(method, params, endpoint, timeout, net)
    IN  [sent |-> rpc.sent,
         outcome |-> TryExcept(PyInt1(GetItem(rpc.outcome, "result")),
                               {"KeyError", "TypeError"},
                               InvalidRPCReplyError(method, endpoint))]

\* blockchain.py 1270-1282
get_block_transaction_count_by_hash(block_hash, endpoint, timeout, net) ==
    LET method == "itcv2_getBlockTransactionCountByHash"
        params == <<block_hash>>
        rpc    == rpc_request(method, params, endpoint, timeout, net)
    IN  [sent |-> rpc.sent,
         outcome |-> TryExcept(PyInt1(GetItem(rpc.outcome, "result")),
                               {"KeyError", "TypeError"},
                               InvalidRPCReplyError(method, endpoint))]

\* blockchain.py 1317-1329
get_block_staking_transaction_count_by_number(block_num, endpoint, timeout, net) ==
    LET method == "itcv2_getBlockStakingTransactionCountByNumber"
        params == <<block_num>>
        rpc    == rpc_request(method, params, endpoint, timeout, net)
    IN  [sent |-> rpc.sent,
         outcome |-> TryExcept(PyInt1(GetItem(rpc.outcome, "result")),
                               {"KeyError", "TypeError"},
                               InvalidRPCReplyError(method, endpoint))]

\* blockchain.py 1364-1376
get_block_staking_transaction_count_by_hash(block_hash, endpoint, timeout, net) ==
    LET method == "itcv2_getBlockStakingTransactionCountByHash"
        params == <<block_hash>>
        rpc    == rpc_request(method, params, endpoint, timeout, net)
    IN  [sent |-> rpc.sent,
         outcome |-> TryExcept(PyInt1(GetItem(rpc.outcome, "result")),
                               {"KeyError", "TypeError"},
                               InvalidRPCReplyError(method, endpoint))]

\* get_blocks listing end_block before start_block in params
get_blocks_end_first(start_block, end_block, full_tx, include_tx, include_staking_tx, include_signers, endpoint, timeout, net) ==
    LET method == "itcv2_getBlocks"
        params == <<end_block, start_block,
                     PyDictV([withSigners |-> include_signers, fullTx |-> full_tx, inclStaking |-> include_staking_tx, inclTx |-> include_tx])>>
        rpc    == rpc_request(method, params, endpoint, timeout, net)
    IN  [sent |-> rpc.sent,
         outcome |-> TryExcept(GetItem(rpc.outcome, "result"),
                               {"KeyError"},
                               InvalidRPCReplyError(method, endpoint))]

\* blockchain.py 1423-1442
get_blocks(start_block, end_block, full_tx, include_tx, include_staking_tx, include_signers, endpoint, timeout, net) ==
    LET method == "itcv2_getBlocks"
        params == <<start_block, end_block,
                     PyDictV([withSigners |-> include_signers, fullTx |-> full_tx, inclStaking |-> include_staking_tx, inclTx |-> include_tx])>>
        rpc    == rpc_request(method, params, endpoint, timeout, net)
    IN  [sent |-> rpc.sent,
         outcome |-> TryExcept(GetItem(rpc.outcome, "result"),
                               {"KeyError"},
                               InvalidRPCReplyError(method, endpoint))]

\* blockchain.py 1475-1485
get_block_signers(block_num, endpoint, timeout, net) ==
    LET method == "itcv2_getBlockSigners"
        params == <<block_num>>
        rpc    == rpc_request(method, params, endpoint, timeout, net)
    IN  [sent |-> rpc.sent,
         outcome |-> TryExcept(GetItem(rpc.outcome, "result"),
                               {"KeyError"},
                               InvalidRPCReplyError(method, endpoint))]

\* blockchain.py 1518-1528
get_block_signers_keys(block_num, endpoint, timeout, net) ==
    LET method == "itcv2_getBlockSignerKeys"
        params == <<block_num>>
        rpc    == rpc_request(method, params, endpoint, timeout, net)
    IN  [sent |-> rpc.sent,
         outcome |-> TryExcept(GetItem(rpc.outcome, "result"),
                               {"KeyError"},
                               InvalidRPCReplyError(method, endpoint))]

\* blockchain.py 1564-1574
is_block_signer(block_num, address, endpoint, timeout, net) ==
    LET method == "itcv2_isBlockSigner"
        params == <<block_num, address>>
        rpc    == rpc_request(method, params, endpoint, timeout, net)
    IN  [sent |-> rpc.sent,
         outcome |-> TryExcept(GetItem(rpc.outcome, "result"),
                               {"KeyError"},
                               InvalidRPCReplyError(method, endpoint))]

\* blockchain.py 1607-1619
get_signed_blocks(address, endpoint, timeout, net) ==
    LET method == "itcv2_getSignedBlocks"
        params == <<address>>
        rpc    == rpc_request(method, params, endpoint, timeout, net)
    IN  [sent |-> rpc.sent,
         outcome |-> TryExcept(PyInt1(GetItem(rpc.outcome, "result")),
                               {"KeyError", "TypeError"},
                               InvalidRPCReplyError(method, endpoint))]

\* get_validators treating a null "result" as an invalid reply
get_validators_non_null(epoch, endpoint, timeout, net) ==
    LET method == "itcv2_getValidators"
        params == <<epoch>>
        rpc    == rpc_request(method, params, endpoint, timeout, net)
        value  == GetItem(rpc.outcome, "result")
    IN  [sent |-> rpc.sent,
         outcome |-> TryExcept(IF value.kind = "return" /\ value.val = PyNone
                                   THEN Raise(Exc("KeyError", <<"result">>, ""))
                                   ELSE value,
                               {"KeyError"},
                               InvalidRPCReplyError(method, endpoint))]

\* blockchain.py 1655-1665
get_validators(epoch, endpoint, timeout, net) ==
    LET method == "itcv2_getValidators"
        params == <<epoch>>
        rpc    == rpc_request(method, params, endpoint, timeout, net)
    IN  [sent |-> rpc.sent,
         outcome |-> TryExcept(GetItem(rpc.outcome, "result"),
                               {"KeyError"},
                               InvalidRPCReplyError(method, endpoint))]

\* blockchain.py 1698-1708
get_validator_keys(epoch, endpoint, timeout, net) ==
    LET method == "itcv2_getValidatorKeys"
        params == <<epoch>>
        rpc    == rpc_request(method, params, endpoint, timeout, net)
    IN  [sent |-> rpc.sent,
         outcome |-> TryExcept(GetItem(rpc.outcome, "result"),
                               {"KeyError"},
                               InvalidRPCReplyError(method, endpoint))]

(***************************************************************************)
(* The environment: arguments of the callers and replies of the endpoint.  *)
(***************************************************************************)
RECURSIVE StrsOfLen(_)
StrsOfLen(n) == IF n = 0 THEN {<<>>} ELSE {Append(s, c) : s \in StrsOfLen(n - 1), c \in {"0", "1", "x"}}

\* the strings an endpoint sends as a value: every string over 0, 1 and x up to
\* MaxStrLen, and some numerals and words outside it
ResultStrings ==
    UNION {StrsOfLen(n) : n \in 0..MaxStrLen}
    \cup {<<"z", "z">>, <<"f", "f">>, <<"0", "x", "f", "f">>, <<"0", "X", "1", "F">>,
          <<"-", "0", "x", "1", "0">>, <<"+", "1", "0">>, <<"1", ".", "5">>,
          <<"t", "r", "u", "e">>, <<"f", "a", "l", "s", "e">>}

\* 0.0
Float_0 == PyFloatV(FALSE, <<0>>, 0, <<0>>, 1)

\* node metadata: with and without "chain-config" and "shard-id", the
\* "chain-config" of several shapes
Metadata ==
    LET ChainConfigs ==
            {PyNone, PyStrV(<<"1">>), PyDictV(<<>>)}
            \cup {PyDictV([k \in {"staking-epoch", "prestaking-epoch"} |-> v]) :
                     v \in {IntOf(186), PyStrV(<<"0", "x", "1", "0">>), PyStrV(<<"1", "0">>),
                            PyStrV(<<"z", "z">>), PyNone}}
            \cup {PyDictV([k \in {"staking-epoch"} |-> IntOf(186)]),
                  PyDictV([k \in {"prestaking-epoch"} |-> IntOf(185)])}
    IN  {PyDictV([k \in {"chain-config", "shard-id"} |->
                     IF k = "chain-config" THEN c ELSE IntOf(1)]) : c \in ChainConfigs}
        \cup {PyDictV([k \in {"chain-config"} |-> c]) : c \in ChainConfigs}
        \cup {PyDictV([k \in {"shard-id"} |-> PyStrV(<<"0", "x", "1">>)])}

\* the values an endpoint sends as "result": null, booleans, integers, the
\* floats 0.0 and 16.7 (4700632111067955 * 2^-48, shortest numeral 0.167e2),
\* strings, node metadata, lists and the empty object
Results ==
    {PyNone, PyBoolV(TRUE), PyBoolV(FALSE), IntOf(0), IntOf(1), IntOf(16), Float_0,
     PyFloatV(FALSE, <<4, 7, 0, 0, 6, 3, 2, 1, 1, 1, 0, 6, 7, 9, 5, 5>>, 0 - 48, <<1, 6, 7>>, 2)}
    \cup {PyStrV(s) : s \in ResultStrings}
    \cup Metadata
    \cup {[t |-> "list", l |-> <<>>], [t |-> "list", l |-> <<IntOf(1)>>], PyDictV(<<>>)}

\* {id, jsonrpc, result}
ResultReply(r) ==
    PyDictV([k \in {"id", "jsonrpc", "result"} |->
                CASE k = "id" -> IntOf(1) [] k = "jsonrpc" -> PyStrV(<<"2", ".", "0">>) [] k = "result" -> r])

\* {id, jsonrpc, error: {code, message}}
ErrorReply ==
    PyDictV([k \in {"id", "jsonrpc", "error"} |->
                CASE k = "id" -> IntOf(1) [] k = "jsonrpc" -> PyStrV(<<"2", ".", "0">>)
                  [] k = "error" -> PyDictV([j \in {"code", "message"} |->
                                                IF j = "code" THEN PyIntV(TRUE, <<3, 2, 0, 0, 0>>)
                                                ELSE PyStrV(<<"n", "o">>)])])

\* decoded bodies that are JSON objects without a "result" member: an error
\* reply, {id, jsonrpc} and {}
NoResultReplies ==
    {ErrorReply,
     PyDictV([k \in {"id", "jsonrpc"} |-> IF k = "id" THEN IntOf(1) ELSE PyStrV(<<"2", ".", "0">>)]),
     PyDictV(<<>>)}

Nets ==
    {NetFailure(k) : k \in {"timeout", "refused", "status", "garbage"}}
    \cup {NetJson(b) : b \in NoResultReplies}
    \cup {NetJson(ResultReply(r)) : r \in Results}

\* an optional argument: <<>> when the caller omits it, <<v>> when given
Arg(a, default) == IF a = <<>> THEN default ELSE a[1]

EndpointArgs == {<<>>, <<"http://node.example:9500">>}

TimeoutArgs == {<<>>, <<5>>}

BlockNums == {IntOf(1), IntOf(2)}

Epochs == {IntOf(3)}

Addresses == {PyStrV(<<"i", "t", "c", "1">>)}

BlockHashes == {PyStrV(<<"0", "x", "a", "b">>)}

\* the option flags of the block getters: none set, and each one alone
Flags ==
    {[full_tx |-> PyBoolV(f = 1), include_tx |-> PyBoolV(f = 2),
      include_staking_tx |-> PyBoolV(f = 3), include_signers |-> PyBoolV(f = 4)] : f \in 0..4}

(***************************************************************************)
(* State.  The library keeps nothing between calls but the scale constant; *)
(* the other variables describe the call being observed.                   *)
(***************************************************************************)
VARIABLES
    pc,               \* "idle": no call under way; "done": a call has ended
    call,             \* the call: function, arguments, endpoint and timeout as passed
    wire,             \* what the transport did with the call's request
    sent,             \* the POSTs the dispatcher made during the call
    outcome,          \* how the call ended: a returned value or a raised exception
    conversion_unit,  \* numbers._conversion_unit
    threads           \* the same five fields for each of several concurrent callers

vars == <<pc, call, wire, sent, outcome, conversion_unit, threads>>

\* a caller with no call under way
Idle ==
    [pc      |-> "idle",
     call    |-> [fn |-> "", args |-> <<>>, endpoint |-> <<>>, timeout |-> <<>>],
     wire    |-> [kind |-> "none", value |-> PyNone],
     sent    |-> <<>>,
     outcome |-> Return(PyNone)]

\* the concurrent callers
Threads == {"A", "B"}

(***************************************************************************)
(* decimal.Decimal under the default context: a sign, a coefficient and an *)
(* exponent (value = coefficient * 10^exponent); results of arithmetic are *)
(* rounded half-even to the precision of the context.                     *)
(***************************************************************************)
\* decimal.getcontext().prec
DefaultPrec == 28

DecimalV(neg, int, exp) == [t |-> "Decimal", neg |-> neg, int |-> int, exp |-> exp]

BigLeq(a, b) ==
    \/ Len(a) < Len(b)
    \/ /\ Len(a) = Len(b)
       /\ \/ a = b
          \/ \E i \in 1..Len(a) : a[i] < b[i] /\ \A j \in 1..(i - 1) : a[j] = b[j]

\* a - b for a >= b
RECURSIVE BigSubB(_, _, _)
BigSubB(a, b, borrow) ==
    IF borrow >= 0 /\ Len(a) = 0 THEN <<>>
    ELSE LET db == IF Len(b) = 0 THEN 0 ELSE Last(b)
             d  == Last(a) - db - borrow
         IN  Append(BigSubB(Front(a), Front(b), IF d < 0 THEN 1 ELSE 0),
                    IF d < 0 THEN d + 10 ELSE d)

BigSub(a, b) == StripZeros(BigSubB(a, b, 0))

\* long division: quotient and remainder of a by b (b # 0)
RECURSIVE BigDivModAcc(_, _, _, _)
BigDivModAcc(a, b, rem, quo) ==
    IF Len(a) = 0 \/ Len(rem) = 0 \/ Len(quo) < 0 THEN <<StripZeros(quo), rem>>
    ELSE LET cur == StripZeros(Append(rem, a[1]))
             q   == CHOOSE k \in 0..9 : /\ BigLeq(BigMulSmall(b, k), cur)
                                       /\ ~BigLeq(BigMulSmall(b, k + 1), cur)
         IN  BigDivModAcc(Tail(a), b, BigSub(cur, BigMulSmall(b, q)), Append(quo, q))

BigDivMod(a, b) == BigDivModAcc(a, b, <<0>>, <<>>)

RECURSIVE BigPow5(_, _)
BigPow5(a, n) ==
    IF n <= 0 \/ Len(a) = 0 THEN a
    ELSE IF n >= 5 THEN BigPow5(BigMulSmall(a, 3125), n - 5)
    ELSE BigPow5(BigMulSmall(a, 5), n - 1)

\* Decimal.from_float: the exact decimal expansion of the binary value
DecimalFromFloat(f) ==
    IF f.e >= 0 THEN DecimalV(f.neg, BigShiftLeft(f.m, f.e), 0)
    ELSE DecimalV(f.neg, BigPow5(f.m, 0 - f.e), f.e)

AllDecimal(s) == \A i \in 1..Len(s) : IsDigitIn(s[i], 10)

CharsToDigits(s) == [i \in 1..Len(s) |-> DigitVal(s[i])]

\* position of the first character of s in set cs, 0 when there is none
IndexOf(s, cs) ==
    IF \E i \in 1..Len(s) : s[i] \in cs
    THEN CHOOSE i \in 1..Len(s) : s[i] \in cs /\ \A j \in 1..(i - 1) : s[j] \notin cs
    ELSE 0

\* Decimal(str): [sign] digits [. digits] [e [sign] digits], or
\* [sign] . digits [e ..]; anything else is a conversion syntax error
DecimalFromStr(s) ==
    LET signed  == Len(s) > 0 /\ s[1] \in {"+", "-"}
        neg     == signed /\ s[1] = "-"
        body    == IF signed THEN Tail(s) ELSE s
        epos    == IndexOf(body, {"e", "E"})
        mant    == IF epos = 0 THEN body ELSE SubSeq(body, 1, epos - 1)
        etxt    == IF epos = 0 THEN <<>> ELSE SubSeq(body, epos + 1, Len(body))
        esigned == Len(etxt) > 0 /\ etxt[1] \in {"+", "-"}
        edigits == IF esigned THEN Tail(etxt) ELSE etxt
        dot     == IndexOf(mant, {"."})
        intpart == IF dot = 0 THEN mant ELSE SubSeq(mant, 1, dot - 1)
        frac    == IF dot = 0 THEN <<>> ELSE SubSeq(mant, dot + 1, Len(mant))
        ok      == /\ AllDecimal(intpart) /\ AllDecimal(frac)
                   /\ Len(intpart) + Len(frac) > 0
                   /\ epos # 0 => (Len(edigits) > 0 /\ AllDecimal(edigits))
        e       == IF epos = 0 THEN 0
                   ELSE IF esigned /\ etxt[1] = "-" THEN 0 - DigitsToNat(CharsToDigits(edigits))
                   ELSE DigitsToNat(CharsToDigits(edigits))
    IN  IF ~ok THEN Raise(Exc("InvalidOperation", <<>>, ""))
        ELSE Return(DecimalV(neg, StripZeros(CharsToDigits(intpart \o frac)), e - Len(frac)))

\* Decimal(value)
PyDecimal(r) ==
    IF r.kind = "raise" THEN r
    ELSE CASE r.val.t = "Decimal" -> r
           [] r.val.t = "int"     -> Return(DecimalV(r.val.neg, r.val.mag, 0))
           [] r.val.t = "float"   -> Return(DecimalFromFloat(r.val))
           [] r.val.t = "str"     -> DecimalFromStr(r.val.s)
           [] OTHER               -> Raise(TypeError)

\* Decimal._fix: round the coefficient to prec digits, ROUND_HALF_EVEN
DecimalFix(d, prec) ==
    IF Len(d.int) <= prec THEN d
    ELSE LET drop   == Len(d.int) - prec
             kept   == SubSeq(d.int, 1, prec)
             rest   == SubSeq(d.int, prec + 1, Len(d.int))
             tail0  == \A i \in 2..Len(rest) : rest[i] = 0
             up     == \/ rest[1] > 5
                       \/ rest[1] = 5 /\ ~tail0
                       \/ rest[1] = 5 /\ tail0 /\ kept[prec] % 2 = 1
             coeff  == IF up THEN BigAdd(kept, <<1>>) ELSE kept
         IN  IF Len(coeff) > prec
             THEN DecimalV(d.neg, Front(coeff), d.exp + drop + 1)
             ELSE DecimalV(d.neg, coeff, d.exp + drop)

\* Decimal.__mul__
DecimalMul(a, b) ==
    DecimalFix(DecimalV(a.neg # b.neg, BigMul(a.int, b.int), a.exp + b.exp), DefaultPrec)

\* strip trailing zeros of an exact quotient while the exponent is below the ideal one
RECURSIVE TowardIdeal(_, _, _)
TowardIdeal(coeff, exp, ideal) ==
    IF exp < ideal /\ Last(coeff) = 0 /\ coeff # <<0>>
    THEN TowardIdeal(Front(coeff), exp + 1, ideal)
    ELSE <<coeff, exp>>

\* Decimal.__truediv__ (b # 0)
DecimalDiv(a, b) ==
    LET neg   == a.neg # b.neg
        ideal == a.exp - b.exp
        shift == Len(b.int) - Len(a.int) + DefaultPrec + 1
        qr    == IF shift >= 0 THEN BigDivMod(a.int \o Zeros(shift), b.int)
                 ELSE BigDivMod(a.int, b.int \o Zeros(0 - shift))
        adj   == IF qr[2] # <<0>>
                 THEN <<IF Last(qr[1]) % 5 = 0 THEN BigAdd(qr[1], <<1>>) ELSE qr[1], ideal - shift>>
                 ELSE TowardIdeal(qr[1], ideal - shift, ideal)
    IN  IF a.int = <<0>> THEN DecimalFix(DecimalV(neg, <<0>>, ideal), DefaultPrec)
        ELSE DecimalFix(DecimalV(neg, adj[1], adj[2]), DefaultPrec)

ZeroChars(n) == [i \in 1..n |-> "0"]

\* str(float): the shortest round-tripping numeral, in exponent notation when
\* the decimal point lies outside (-4, 16]
FloatRepr(f) ==
    LET n      == Len(f.digits)
        sign   == IF f.neg THEN <<"-">> ELSE <<>>
        dchars == [i \in 1..n |-> DigitChar(f.digits[i])]
        exp    == f.decpt - 1
        echars == LET d == NatToDigits(IF exp < 0 THEN 0 - exp ELSE exp)
                      c == [i \in 1..Len(d) |-> DigitChar(d[i])]
                  IN  IF Len(c) < 2 THEN <<"0">> \o c ELSE c
    IN  IF f.decpt <= 0 - 4 \/ f.decpt > 16
        THEN sign \o (IF n = 1 THEN dchars ELSE <<dchars[1], ".">> \o Tail(dchars))
                  \o <<"e", IF exp < 0 THEN "-" ELSE "+">> \o echars
        ELSE IF f.decpt <= 0
        THEN sign \o <<"0", ".">> \o ZeroChars(0 - f.decpt) \o dchars
        ELSE IF f.decpt >= n
        THEN sign \o dchars \o ZeroChars(f.decpt - n) \o <<".", "0">>
        ELSE sign \o SubSeq(dchars, 1, f.decpt) \o <<".">> \o SubSeq(dchars, f.decpt + 1, n)

\* str(x), for the floats the converter passes to it
PyStr(r) ==
    IF r.kind = "raise" THEN r
    ELSE IF r.val.t = "float" THEN Return(PyStrV(FloatRepr(r.val)))
    ELSE IF r.val.t = "str" THEN r
    ELSE Raise(TypeError)

\* reading a local variable of a frame: unbound unless assigned or a parameter
LoadFast(frame, name) ==
    IF name \in DOMAIN frame THEN Return(frame[name])
    ELSE Raise(Exc("UnboundLocalError", <<name>>, ""))

(***************************************************************************)
(* numbers.py                                                              *)
(***************************************************************************)
\* the float literal 1e18 = 3814697265625 * 2^18, shortest numeral 0.1e19
Float_1e18 ==
    PyFloatV(FALSE, <<3, 8, 1, 4, 6, 9, 7, 2, 6, 5, 6, 2, 5>>, 18, <<1>>, 19)

\* the scale built from the next float above 1e18, 7812500000000001 * 2^7
InitialConversionUnit_next_float ==
    DecimalFromFloat(PyFloatV(FALSE, <<7, 8, 1, 2, 5, 0, 0, 0, 0, 0, 0, 0, 0, 0, 0, 1>>, 7,
                              <<1, 0, 0, 0, 0, 0, 0, 0, 0, 0, 0, 0, 0, 0, 0, 0, 1>>, 19))

\* numbers.py 8: _conversion_unit = Decimal( 1e18 )
InitialConversionUnit == DecimalFromFloat(Float_1e18)

\* numbers.py 11-27: the parameter is named intelli, the body reads and
\* assigns INTELLI, which is therefore a local that no statement has bound
\* when line 25 reads it
convert_intelli_to_itc(intelli) ==
    LET frame == [intelli |-> intelli]
        l25   == LoadFast(frame, "INTELLI")
        l26   == IF l25.val.t = "float" THEN PyInt1(l25) ELSE l25
        num   == PyDecimal(l26)
    IN  IF l25.kind = "raise" THEN l25
        ELSE IF num.kind = "raise" THEN num
        ELSE Return(DecimalDiv(num.val, conversion_unit))

\* numbers.py 30-45
convert_itc_to_intelli(one) ==
    LET l44 == IF one.t = "float" THEN PyStr(Return(one)) ELSE Return(one)
        num == PyDecimal(l44)
    IN  IF num.kind = "raise" THEN num
        ELSE Return(DecimalMul(num.val, conversion_unit))

\* a call of a wrapper from an idle caller, ending with the wrapper's result r
Invoke(fn, args, ep, to, net, r) ==
    /\ pc' = "done"
    /\ call' = [fn |-> fn, args |-> args, endpoint |-> ep, timeout |-> to]
    /\ wire' = net
    /\ sent' = r.sent
    /\ outcome' = r.outcome
    /\ UNCHANGED <<conversion_unit, threads>>

Call_get_bad_blocks ==
    /\ pc = "idle"
    /\ \E ep \in EndpointArgs, to \in TimeoutArgs, net \in Nets :
           Invoke("get_bad_blocks", <<>>, ep, to, net,
                  get_bad_blocks(Arg(ep, DEFAULT_ENDPOINT), Arg(to, DEFAULT_TIMEOUT), net))

Call_chain_id ==
    /\ pc = "idle"
    /\ \E ep \in EndpointArgs, to \in TimeoutArgs, net \in Nets :
           Invoke("chain_id", <<>>, ep, to, net,
                  chain_id(Arg(ep, DEFAULT_ENDPOINT), Arg(to, DEFAULT_TIMEOUT), net))

Call_get_node_metadata ==
    /\ pc = "idle"
    /\ \E ep \in EndpointArgs, to \in TimeoutArgs, net \in Nets :
           Invoke("get_node_metadata", <<>>, ep, to, net,
                  get_node_metadata(Arg(ep, DEFAULT_ENDPOINT), Arg(to, DEFAULT_TIMEOUT), net))

Call_get_peer_info ==
    /\ pc = "idle"
    /\ \E ep \in EndpointArgs, to \in TimeoutArgs, net \in Nets :
           Invoke("get_peer_info", <<>>, ep, to, net,
                  get_peer_info(Arg(ep, DEFAULT_ENDPOINT), Arg(to, DEFAULT_TIMEOUT), net))

Call_protocol_version ==
    /\ pc = "idle"
    /\ \E ep \in EndpointArgs, to \in TimeoutArgs, net \in Nets :
           Invoke("protocol_version", <<>>, ep, to, net,
                  protocol_version(Arg(ep, DEFAULT_ENDPOINT), Arg(to, DEFAULT_TIMEOUT), net))

Call_get_num_peers ==
    /\ pc = "idle"
    /\ \E ep \in EndpointArgs, to \in TimeoutArgs, net \in Nets :
           Invoke("get_num_peers", <<>>, ep, to, net,
                  get_num_peers(Arg(ep, DEFAULT_ENDPOINT), Arg(to, DEFAULT_TIMEOUT), net))

Call_get_version ==
    /\ pc = "idle"
    /\ \E ep \in EndpointArgs, to \in TimeoutArgs, net \in Nets :
           Invoke("get_version", <<>>, ep, to, net,
                  get_version(Arg(ep, DEFAULT_ENDPOINT), Arg(to, DEFAULT_TIMEOUT), net))

Call_in_sync ==
    /\ pc = "idle"
    /\ \E ep \in EndpointArgs, to \in TimeoutArgs, net \in Nets :
           Invoke("in_sync", <<>>, ep, to, net,
                  in_sync(Arg(ep, DEFAULT_ENDPOINT), Arg(to, DEFAULT_TIMEOUT), net))

Call_beacon_in_sync ==
    /\ pc = "idle"
    /\ \E ep \in EndpointArgs, to \in TimeoutArgs, net \in Nets :
           Invoke("beacon_in_sync", <<>>, ep, to, net,
                  beacon_in_sync(Arg(ep, DEFAULT_ENDPOINT), Arg(to, DEFAULT_TIMEOUT), net))

Call_get_staking_epoch ==
    /\ pc = "idle"
    /\ \E ep \in EndpointArgs, to \in TimeoutArgs, net \in Nets :
           Invoke("get_staking_epoch", <<>>, ep, to, net,
                  get_staking_epoch(Arg(ep, DEFAULT_ENDPOINT), Arg(to, DEFAULT_TIMEOUT), net))

Call_get_prestaking_epoch ==
    /\ pc = "idle"
    /\ \E ep \in EndpointArgs, to \in TimeoutArgs, net \in Nets :
           Invoke("get_prestaking_epoch", <<>>, ep, to, net,
                  get_prestaking_epoch(Arg(ep, DEFAULT_ENDPOINT), Arg(to, DEFAULT_TIMEOUT), net))

Call_get_shard ==
    /\ pc = "idle"
    /\ \E ep \in EndpointArgs, to \in TimeoutArgs, net \in Nets :
           Invoke("get_shard", <<>>, ep, to, net,
                  get_shard(Arg(ep, DEFAULT_ENDPOINT), Arg(to, DEFAULT_TIMEOUT), net))

Call_get_sharding_structure ==
    /\ pc = "idle"
    /\ \E ep \in EndpointArgs, to \in TimeoutArgs, net \in Nets :
           Invoke("get_sharding_structure", <<>>, ep, to, net,
                  get_sharding_structure(Arg(ep, DEFAULT_ENDPOINT), Arg(to, DEFAULT_TIMEOUT), net))

Call_get_leader_address ==
    /\ pc = "idle"
    /\ \E ep \in EndpointArgs, to \in TimeoutArgs, net \in Nets :
           Invoke("get_leader_address", <<>>, ep, to, net,
                  get_leader_address(Arg(ep, DEFAULT_ENDPOINT), Arg(to, DEFAULT_TIMEOUT), net))

Call_is_last_block ==
    /\ pc = "idle"
    /\ \E block_num \in BlockNums, ep \in EndpointArgs, to \in TimeoutArgs, net \in Nets :
           Invoke("is_last_block", <<block_num>>, ep, to, net,
                  is_last_block(block_num, Arg(ep, DEFAULT_ENDPOINT), Arg(to, DEFAULT_TIMEOUT), net))

Call_epoch_last_block ==
    /\ pc = "idle"
    /\ \E epoch \in Epochs, ep \in EndpointArgs, to \in TimeoutArgs, net \in Nets :
           Invoke("epoch_last_block", <<epoch>>, ep, to, net,
                  epoch_last_block(epoch, Arg(ep, DEFAULT_ENDPOINT), Arg(to, DEFAULT_TIMEOUT), net))

Call_get_circulating_supply ==
    /\ pc = "idle"
    /\ \E ep \in EndpointArgs, to \in TimeoutArgs, net \in Nets :
           Invoke("get_circulating_supply", <<>>, ep, to, net,
                  get_circulating_supply(Arg(ep, DEFAULT_ENDPOINT), Arg(to, DEFAULT_TIMEOUT), net))

Call_get_total_supply ==
    /\ pc = "idle"
    /\ \E ep \in EndpointArgs, to \in TimeoutArgs, net \in Nets :
           Invoke("get_total_supply", <<>>, ep, to, net,
                  get_total_supply(Arg(ep, DEFAULT_ENDPOINT), Arg(to, DEFAULT_TIMEOUT), net))

Call_get_block_number ==
    /\ pc = "idle"
    /\ \E ep \in EndpointArgs, to \in TimeoutArgs, net \in Nets :
           Invoke("get_block_number", <<>>, ep, to, net,
                  get_block_number(Arg(ep, DEFAULT_ENDPOINT), Arg(to, DEFAULT_TIMEOUT), net))

Call_get_current_epoch ==
    /\ pc = "idle"
    /\ \E ep \in EndpointArgs, to \in TimeoutArgs, net \in Nets :
           Invoke("get_current_epoch", <<>>, ep, to, net,
                  get_current_epoch(Arg(ep, DEFAULT_ENDPOINT), Arg(to, DEFAULT_TIMEOUT), net))

Call_get_last_cross_links ==
    /\ pc = "idle"
    /\ \E ep \in EndpointArgs, to \in TimeoutArgs, net \in Nets :
           Invoke("get_last_cross_links", <<>>, ep, to, net,
                  get_last_cross_links(Arg(ep, DEFAULT_ENDPOINT), Arg(to, DEFAULT_TIMEOUT), net))

Call_get_gas_price ==
    /\ pc = "idle"
    /\ \E ep \in EndpointArgs, to \in TimeoutArgs, net \in Nets :
           Invoke("get_gas_price", <<>>, ep, to, net,
                  get_gas_price(Arg(ep, DEFAULT_ENDPOINT), Arg(to, DEFAULT_TIMEOUT), net))

Call_get_latest_header ==
    /\ pc = "idle"
    /\ \E ep \in EndpointArgs, to \in TimeoutArgs, net \in Nets :
           Invoke("get_latest_header", <<>>, ep, to, net,
                  get_latest_header(Arg(ep, DEFAULT_ENDPOINT), Arg(to, DEFAULT_TIMEOUT), net))

Call_get_header_by_number ==
    /\ pc = "idle"
    /\ \E block_num \in BlockNums, ep \in EndpointArgs, to \in TimeoutArgs, net \in Nets :
           Invoke("get_header_by_number", <<block_num>>, ep, to, net,
                  get_header_by_number(block_num, Arg(ep, DEFAULT_ENDPOINT), Arg(to, DEFAULT_TIMEOUT), net))

Call_get_latest_chain_headers ==
    /\ pc = "idle"
    /\ \E ep \in EndpointArgs, to \in TimeoutArgs, net \in Nets :
           Invoke("get_latest_chain_headers", <<>>, ep, to, net,
                  get_latest_chain_headers(Arg(ep, DEFAULT_ENDPOINT), Arg(to, DEFAULT_TIMEOUT), net))

Call_get_block_by_number ==
    /\ pc = "idle"
    /\ \E block_num \in BlockNums, fl \in Flags, ep \in EndpointArgs, to \in TimeoutArgs, net \in Nets :
           Invoke("get_block_by_number", <<block_num, fl.full_tx, fl.include_tx, fl.include_staking_tx, fl.include_signers>>, ep, to, net,
                  get_block_by_number(block_num, fl.full_tx, fl.include_tx, fl.include_staking_tx, fl.include_signers, Arg(ep, DEFAULT_ENDPOINT), Arg(to, DEFAULT_TIMEOUT), net))

Call_get_block_by_hash ==
    /\ pc = "idle"
    /\ \E block_hash \in BlockHashes, fl \in Flags, ep \in EndpointArgs, to \in TimeoutArgs, net \in Nets :
           Invoke("get_block_by_hash", <<block_hash, fl.full_tx, fl.include_tx, fl.include_staking_tx, fl.include_signers>>, ep, to, net,
                  get_block_by_hash(block_hash, fl.full_tx, fl.include_tx, fl.include_staking_tx, fl.include_signers, Arg(ep, DEFAULT_ENDPOINT), Arg(to, DEFAULT_TIMEOUT), net))

Call_get_block_transaction_count_by_number ==
    /\ pc = "idle"
    /\ \E block_num \in BlockNums, ep \in EndpointArgs, to \in TimeoutArgs, net \in Nets :
           Invoke("get_block_transaction_count_by_number", <<block_num>>, ep, to, net,
                  get_block_transaction_count_by_number(block_num, Arg(ep, DEFAULT_ENDPOINT), Arg(to, DEFAULT_TIMEOUT), net))

Call_get_block_transaction_count_by_hash ==
    /\ pc = "idle"
    /\ \E block_hash \in BlockHashes, ep \in EndpointArgs, to \in TimeoutArgs, net \in Nets :
           Invoke("get_block_transaction_count_by_hash", <<block_hash>>, ep, to, net,
                  get_block_transaction_count_by_hash(block_hash, Arg(ep, DEFAULT_ENDPOINT), Arg(to, DEFAULT_TIMEOUT), net))

Call_get_block_staking_transaction_count_by_number ==
    /\ pc = "idle"
    /\ \E block_num \in BlockNums, ep \in EndpointArgs, to \in TimeoutArgs, net \in Nets :
           Invoke("get_block_staking_transaction_count_by_number", <<block_num>>, ep, to, net,
                  get_block_staking_transaction_count_by_number(block_num, Arg(ep, DEFAULT_ENDPOINT), Arg(to, DEFAULT_TIMEOUT), net))

Call_get_block_staking_transaction_count_by_hash ==
    /\ pc = "idle"
    /\ \E block_hash \in BlockHashes, ep \in EndpointArgs, to \in TimeoutArgs, net \in Nets :
           Invoke("get_block_staking_transaction_count_by_hash", <<block_hash>>, ep, to, net,
                  get_block_staking_transaction_count_by_hash(block_hash, Arg(ep, DEFAULT_ENDPOINT), Arg(to, DEFAULT_TIMEOUT), net))

Call_get_blocks ==
    /\ pc = "idle"
    /\ \E start_block \in BlockNums, end_block \in BlockNums, fl \in Flags, ep \in EndpointArgs, to \in TimeoutArgs, net \in Nets :
           Invoke("get_blocks", <<start_block, end_block, fl.full_tx, fl.include_tx, fl.include_staking_tx, fl.include_signers>>, ep, to, net,
                  get_blocks(start_block, end_block, fl.full_tx, fl.include_tx, fl.include_staking_tx, fl.include_signers, Arg(ep, DEFAULT_ENDPOINT), Arg(to, DEFAULT_TIMEOUT), net))

Call_get_block_signers ==
    /\ pc = "idle"
    /\ \E block_num \in BlockNums, ep \in EndpointArgs, to \in TimeoutArgs, net \in Nets :
           Invoke("get_block_signers", <<block_num>>, ep, to, net,
                  get_block_signers(block_num, Arg(ep, DEFAULT_ENDPOINT), Arg(to, DEFAULT_TIMEOUT), net))

Call_get_block_signers_keys ==
    /\ pc = "idle"
    /\ \E block_num \in BlockNums, ep \in EndpointArgs, to \in TimeoutArgs, net \in Nets :
           Invoke("get_block_signers_keys", <<block_num>>, ep, to, net,
                  get_block_signers_keys(block_num, Arg(ep, DEFAULT_ENDPOINT), Arg(to, DEFAULT_TIMEOUT), net))

Call_is_block_signer ==
    /\ pc = "idle"
    /\ \E block_num \in BlockNums, address \in Addresses, ep \in EndpointArgs, to \in TimeoutArgs, net \in Nets :
           Invoke("is_block_signer", <<block_num, address>>, ep, to, net,
                  is_block_signer(block_num, address, Arg(ep, DEFAULT_ENDPOINT), Arg(to, DEFAULT_TIMEOUT), net))

Call_get_signed_blocks ==
    /\ pc = "idle"
    /\ \E address \in Addresses, ep \in EndpointArgs, to \in TimeoutArgs, net \in Nets :
           Invoke("get_signed_blocks", <<address>>, ep, to, net,
                  get_signed_blocks(address, Arg(ep, DEFAULT_ENDPOINT), Arg(to, DEFAULT_TIMEOUT), net))

Call_get_validators ==
    /\ pc = "idle"
    /\ \E epoch \in Epochs, ep \in EndpointArgs, to \in TimeoutArgs, net \in Nets :
           Invoke("get_validators", <<epoch>>, ep, to, net,
                  get_validators(epoch, Arg(ep, DEFAULT_ENDPOINT), Arg(to, DEFAULT_TIMEOUT), net))

Call_get_validator_keys ==
    /\ pc = "idle"
    /\ \E epoch \in Epochs, ep \in EndpointArgs, to \in TimeoutArgs, net \in Nets :
           Invoke("get_validator_keys", <<epoch>>, ep, to, net,
                  get_validator_keys(epoch, Arg(ep, DEFAULT_ENDPOINT), Arg(to, DEFAULT_TIMEOUT), net))

(***************************************************************************)
(* Amounts the callers pass to the converters.                             *)
(***************************************************************************)
PowerOfTen(k) == <<1>> \o Zeros(k)

\* 10^k + 1
PowerOfTenPlusOne(k) == <<1>> \o Zeros(k - 1) \o <<1>>

\* whole amounts: 10^k and 10^k + 1 up to MaxPow, and 0 and 1.5 * 10^18
WholeMagnitudes ==
    {PowerOfTen(k) : k \in 0..MaxPow} \cup {PowerOfTenPlusOne(k) : k \in 1..MaxPow}
    \cup {<<0>>, <<1, 5>> \o Zeros(17)}

IntAmounts ==
    {PyIntV(FALSE, m) : m \in WholeMagnitudes} \cup {PyIntV(TRUE, PowerOfTen(18))}

\* numerals of whole amounts
WholeStrAmounts == {PyStrV([i \in 1..Len(m) |-> DigitChar(m[i])]) : m \in WholeMagnitudes}

\* 2.0
Float_2_0 == PyFloatV(FALSE, <<1>>, 1, <<2>>, 1)

\* 1e18, 2.0, 0.0, 1.5, 2.7, 0.1 and 1e-18.  1e18 is also the value of the float
\* expression 1e18 + 0.6: binary64 numbers near 10^18 are 128 apart
FloatAmounts ==
    {Float_1e18, Float_2_0, Float_0,
     PyFloatV(FALSE, <<3>>, 0 - 1, <<1, 5>>, 1),
     PyFloatV(FALSE, <<3, 0, 3, 9, 9, 2, 9, 7, 4, 8, 4, 7, 5, 0, 8, 5>>, 0 - 50, <<2, 7>>, 1),
     PyFloatV(FALSE, <<3, 6, 0, 2, 8, 7, 9, 7, 0, 1, 8, 9, 6, 3, 9, 7>>, 0 - 55, <<1>>, 0),
     PyFloatV(FALSE, <<1, 2, 9, 8, 0, 7, 4, 2, 1, 4, 6, 3, 3, 7, 0, 7>>, 0 - 110, <<1>>, 0 - 17)}

DecimalAmounts ==
    {DecimalV(FALSE, m, 0) : m \in WholeMagnitudes}
    \cup {DecimalV(FALSE, <<1, 5>>, 0 - 1), DecimalV(FALSE, PowerOfTenPlusOne(28), 0 - 28)}

\* the numerals in the second line have a fraction or an exponent; the last
\* has 29 significant digits
NumericAmounts ==
    IntAmounts \cup WholeStrAmounts \cup FloatAmounts \cup DecimalAmounts
    \cup {PyStrV(<<"1", ".", "5">>), PyStrV(<<"0", ".", "5">>), PyStrV(<<"1", "e", "-", "1", "8">>),
          PyStrV(<<"1", ".">> \o ZeroChars(27) \o <<"1">>)}

\* with strings that are no numerals
Amounts == NumericAmounts \cup {PyStrV(<<"a", "b", "c">>), PyStrV(<<>>)}

\* a call of a converter from an idle caller, ending with the outcome r
Convert(fn, value, r) ==
    /\ pc' = "done"
    /\ call' = [fn |-> fn, args |-> <<value>>, endpoint |-> <<>>, timeout |-> <<>>]
    /\ wire' = Idle.wire
    /\ sent' = <<>>
    /\ outcome' = r
    /\ UNCHANGED <<conversion_unit, threads>>

Call_convert_intelli_to_itc ==
    /\ pc = "idle"
    /\ \E value \in Amounts :
           Convert("convert_intelli_to_itc", value, convert_intelli_to_itc(value))

Call_convert_itc_to_intelli ==
    /\ pc = "idle"
    /\ \E value \in Amounts :
           Convert("convert_itc_to_intelli", value, convert_itc_to_intelli(value))

\* the caller takes the outcome; nothing of the call is kept
Finish ==
    /\ pc = "done"
    /\ pc' = "idle"
    /\ call' = Idle.call
    /\ wire' = Idle.wire
    /\ sent' = <<>>
    /\ outcome' = Idle.outcome
    /\ UNCHANGED <<conversion_unit, threads>>

Init ==
    /\ pc = "idle"
    /\ call = Idle.call
    /\ wire = Idle.wire
    /\ sent = <<>>
    /\ outcome = Idle.outcome
    /\ conversion_unit = InitialConversionUnit
    /\ threads = [t \in Threads |-> Idle]

Next ==
    \/ Call_get_bad_blocks
    \/ Call_chain_id
    \/ Call_get_node_metadata
    \/ Call_get_peer_info
    \/ Call_protocol_version
    \/ Call_get_num_peers
    \/ Call_get_version
    \/ Call_in_sync
    \/ Call_beacon_in_sync
    \/ Call_get_staking_epoch
    \/ Call_get_prestaking_epoch
    \/ Call_get_shard
    \/ Call_get_sharding_structure
    \/ Call_get_leader_address
    \/ Call_is_last_block
    \/ Call_epoch_last_block
    \/ Call_get_circulating_supply
    \/ Call_get_total_supply
    \/ Call_get_block_number
    \/ Call_get_current_epoch
    \/ Call_get_last_cross_links
    \/ Call_get_gas_price
    \/ Call_get_latest_header
    \/ Call_get_header_by_number
    \/ Call_get_latest_chain_headers
    \/ Call_get_block_by_number
    \/ Call_get_block_by_hash
    \/ Call_get_block_transaction_count_by_number
    \/ Call_get_block_transaction_count_by_hash
    \/ Call_get_block_staking_transaction_count_by_number
    \/ Call_get_block_staking_transaction_count_by_hash
    \/ Call_get_blocks
    \/ Call_get_block_signers
    \/ Call_get_block_signers_keys
    \/ Call_is_block_signer
    \/ Call_get_signed_blocks
    \/ Call_get_validators
    \/ Call_get_validator_keys
    \/ Call_convert_intelli_to_itc
    \/ Call_convert_itc_to_intelli
    \/ Finish

Spec == Init /\ [][Next]_vars

(***************************************************************************)
(* Properties.                                                             *)
(***************************************************************************)
ConverterNames == {"convert_intelli_to_itc", "convert_itc_to_intelli"}

\* a call of a domain wrapper has ended
WrapperDone == pc = "done" /\ call.fn \notin ConverterNames

\* the endpoint the wrapper was called with
EndpointOf(c) == Arg(c.endpoint, DEFAULT_ENDPOINT)

\* the dispatcher returned a decoded JSON object
GotObject == wire.kind = "json" /\ wire.value.t = "dict"

\* ... that has a "result" member
GotResult == GotObject /\ "result" \in DOMAIN wire.value.d

ResultOf == wire.value.d["result"]

\* C1: when the dispatcher returns a decoded JSON object that has no "result"
\* key, every wrapper raises InvalidRPCReplyError built from the method name
\* it sent to the dispatcher and the endpoint it was called with; it neither
\* lets the KeyError escape nor returns a value.
C1_MissingResultRaisesInvalidReply ==
    (WrapperDone /\ GotObject /\ "result" \notin DOMAIN wire.value.d)
    => /\ Len(sent) >= 1
       /\ outcome.kind = "raise"
       /\ outcome.exc.type = "InvalidRPCReplyError"
       /\ outcome.exc.args = <<sent[1].json.method, EndpointOf(call)>>

C1_Witness ==
    /\ WrapperDone
    /\ call.fn = "is_block_signer"
    /\ wire = NetJson(ErrorReply)
    /\ outcome.kind = "raise"
    /\ outcome.exc.type = "InvalidRPCReplyError"
    /\ outcome.exc.args = <<"itcv2_isBlockSigner", DEFAULT_ENDPOINT>>

\* the wrappers that post-process the "result" value
PostProcessingWrappers ==
    {"get_num_peers", "get_version", "in_sync", "beacon_in_sync",
     "get_staking_epoch", "get_prestaking_epoch", "get_shard",
     "is_last_block", "epoch_last_block", "get_block_number",
     "get_current_epoch", "get_gas_price",
     "get_block_transaction_count_by_number",
     "get_block_transaction_count_by_hash",
     "get_block_staking_transaction_count_by_number",
     "get_block_staking_transaction_count_by_hash", "get_signed_blocks"}

\* C2: a wrapper that post-processes the result raises InvalidRPCReplyError
\* whenever the "result" value makes the post-processing fail; no KeyError,
\* TypeError or ValueError of the lookup or cast reaches the caller.
C2_PostProcessingFailureIsInvalidReply ==
    (WrapperDone /\ call.fn \in PostProcessingWrappers /\ GotResult /\ outcome.kind = "raise")
    => outcome.exc.type = "InvalidRPCReplyError"

TransportFailures == {"timeout", "refused", "status", "garbage"}

\* C3 as stated: when the dispatcher itself fails, the wrapper surfaces the
\* failure as InvalidRPCReplyError, the only error kind a caller observes.
C3_TransportFailureIsInvalidReply ==
    (WrapperDone /\ wire.kind \in TransportFailures)
    => (outcome.kind = "raise" /\ outcome.exc.type = "InvalidRPCReplyError")

\* C3, amended: when the dispatcher itself fails, no wrapper catches the
\* failure: the caller observes the dispatcher's own error (Timeout,
\* RequestFailed or MalformedResponse), raised from nothing.
C3_TransportFailurePropagates ==
    (WrapperDone /\ wire.kind \in TransportFailures)
    => /\ outcome.kind = "raise"
       /\ outcome.exc.type = CASE wire.kind = "timeout" -> "Timeout"
                               [] wire.kind \in {"refused", "status"} -> "RequestFailed"
                               [] wire.kind = "garbage" -> "MalformedResponse"
       /\ outcome.exc.args[1] = EndpointOf(call)
       /\ outcome.exc.cause = ""

C3_Witness ==
    /\ WrapperDone
    /\ call.fn = "chain_id"
    /\ wire = NetFailure("timeout")
    /\ outcome.kind = "raise"
    /\ outcome.exc.type = "Timeout"

(***************************************************************************)
(* Exact decimal arithmetic, to state what the converters should return.   *)
(***************************************************************************)
\* the same number with no trailing zero in the coefficient
RECURSIVE Normalize(_)
Normalize(d) ==
    IF d.int = <<0>> THEN DecimalV(FALSE, <<0>>, 0)
    ELSE IF Last(d.int) = 0 THEN Normalize(DecimalV(d.neg, Front(d.int), d.exp + 1))
    ELSE d

\* numeric equality of two decimals
NumEq(a, b) == Normalize(a) = Normalize(b)

\* the number an amount denotes; a float denotes the number its shortest
\* numeral spells
ExactValue(v) ==
    CASE v.t = "int"     -> DecimalV(v.neg, v.mag, 0)
      [] v.t = "Decimal" -> v
      [] v.t = "float"   -> DecimalV(v.neg, v.digits, v.decpt - Len(v.digits))
      [] v.t = "str"     -> DecimalFromStr(v.s).val

\* d * 10^18 and d / 10^18, exactly
TimesScale(d) == DecimalV(d.neg, d.int, d.exp + 18)

OverScale(d) == DecimalV(d.neg, d.int, d.exp - 18)

ConverterDone(fn) == pc = "done" /\ call.fn = fn

\* C4: both converters accept a string, an integer, a float and an exact
\* decimal, and for each return an exact decimal without raising.
C4_ConvertersAcceptAllTypes ==
    (pc = "done" /\ call.fn \in ConverterNames /\ call.args[1] \in NumericAmounts)
    => (outcome.kind = "return" /\ outcome.val.t = "Decimal")

\* amounts that are whole numbers of subunits, whatever their type
WholeAmounts ==
    IntAmounts \cup WholeStrAmounts \cup {DecimalV(FALSE, m, 0) : m \in WholeMagnitudes}

\* C5: convert_intelli_to_itc returns exactly value / 10^18 for every
\* integer, integer-valued string and exact-decimal input (10^18 yields 1).
C5_SubunitToUnitIsExactQuotient ==
    (ConverterDone("convert_intelli_to_itc")
        /\ call.args[1] \in IntAmounts \cup WholeStrAmounts \cup DecimalAmounts)
    => /\ outcome.kind = "return"
       /\ NumEq(outcome.val, OverScale(ExactValue(call.args[1])))

\* C6: for a float, convert_intelli_to_itc truncates to an integer and then
\* divides by 10^18, so the result depends on the integer part only (1e18 and
\* 1e18 + 0.6 yield 1).
C6_FloatIsTruncatedThenDivided ==
    (ConverterDone("convert_intelli_to_itc") /\ call.args[1] \in FloatAmounts)
    => /\ outcome.kind = "return"
       /\ NumEq(outcome.val, OverScale(ExactValue(PyIntOfFloat(call.args[1]))))

\* C7: convert_itc_to_intelli returns exactly value * 10^18 for every string,
\* integer, float and exact-decimal input, a float being taken through its
\* decimal string representation.
C7_UnitToSubunitIsExactProduct ==
    (ConverterDone("convert_itc_to_intelli") /\ call.args[1] \in NumericAmounts)
    => /\ outcome.kind = "return"
       /\ NumEq(outcome.val, TimesScale(ExactValue(call.args[1])))

\* C8: round trip: for every integer-valued subunit amount x of any
\* magnitude, convert_itc_to_intelli(convert_intelli_to_itc(x)) equals x.
C8_RoundTripKeepsEveryDigit ==
    (ConverterDone("convert_intelli_to_itc")
        /\ call.args[1] \in WholeAmounts \cup {Float_1e18, Float_2_0})
    => /\ outcome.kind = "return"
       /\ LET back == convert_itc_to_intelli(outcome.val)
          IN  back.kind = "return" /\ NumEq(back.val, ExactValue(call.args[1]))

(***************************************************************************)
(* Base-16 numerals.                                                       *)
(***************************************************************************)
\* the numeral without its "0x" prefix
HexBody(s) ==
    IF Len(s) >= 2 /\ s[1] = "0" /\ s[2] \in {"x", "X"} THEN SubSeq(s, 3, Len(s)) ELSE s

HasHexPrefix(s) == Len(s) >= 2 /\ s[1] = "0" /\ s[2] \in {"x", "X"}

HexDigitsOnly(s) == Len(s) > 0 /\ \A i \in 1..Len(s) : IsDigitIn(s[i], 16)

\* the positional value of a numeral in a base
RECURSIVE PositionalValue(_, _)
PositionalValue(s, base) ==
    IF Len(s) = 0 THEN 0 ELSE DigitVal(Last(s)) + base * PositionalValue(Front(s), base)

\* C9: get_num_peers and get_version read the "result" string as a base-16
\* integer: "0x10" and "10" both yield 16, never 10.
C9_PeerCountAndVersionAreBase16 ==
    (WrapperDone /\ call.fn \in {"get_num_peers", "get_version"} /\ GotResult
        /\ ResultOf.t = "str" /\ HexDigitsOnly(HexBody(ResultOf.s)))
    => outcome = Return(IntOf(PositionalValue(HexBody(ResultOf.s), 16)))

C9_Witness ==
    /\ WrapperDone
    /\ call.fn = "get_num_peers"
    /\ GotResult
    /\ ResultOf = PyStrV(<<"1", "0">>)
    /\ outcome = Return(IntOf(16))

\* the wrappers that return an integer
IntegerWrappers ==
    {"get_num_peers", "get_version", "get_staking_epoch",
     "get_prestaking_epoch", "epoch_last_block", "get_block_number",
     "get_current_epoch", "get_gas_price",
     "get_block_transaction_count_by_number",
     "get_block_transaction_count_by_hash",
     "get_block_staking_transaction_count_by_number",
     "get_block_staking_transaction_count_by_hash", "get_signed_blocks"}

\* the value an integer-returning wrapper converts: the "result", or for the
\* epoch wrappers the epoch member of its "chain-config"; <<>> when absent
ReceivedValue ==
    IF ~GotResult THEN <<>>
    ELSE IF call.fn \in {"get_staking_epoch", "get_prestaking_epoch"}
    THEN LET key == IF call.fn = "get_staking_epoch" THEN "staking-epoch"
                    ELSE "prestaking-epoch"
         IN  IF /\ ResultOf.t = "dict"
                /\ "chain-config" \in DOMAIN ResultOf.d
                /\ ResultOf.d["chain-config"].t = "dict"
                /\ key \in DOMAIN ResultOf.d["chain-config"].d
             THEN <<ResultOf.d["chain-config"].d[key]>>
             ELSE <<>>
    ELSE <<ResultOf>>

\* C10: every integer-returning wrapper that receives a hex-encoded string
\* such as "0x10" as its value returns the base-16 reading (16), not a
\* base-10 reading and not an error.
C10_IntegerWrappersReadHex ==
    (WrapperDone /\ call.fn \in IntegerWrappers /\ ReceivedValue # <<>>
        /\ ReceivedValue[1].t = "str" /\ HasHexPrefix(ReceivedValue[1].s)
        /\ HexDigitsOnly(HexBody(ReceivedValue[1].s)))
    => outcome = Return(IntOf(PositionalValue(HexBody(ReceivedValue[1].s), 16)))

(***************************************************************************)
(* Booleans.                                                               *)
(***************************************************************************)
\* the wrappers whose signature promises a bool
BooleanWrappers == {"in_sync", "beacon_in_sync", "is_last_block", "is_block_signer"}

\* C11: every boolean-returning wrapper returns a strict boolean for every
\* "result" value the endpoint sends: a native boolean, a number or a string.
C11_BooleanWrappersReturnStrictBoolean ==
    (WrapperDone /\ call.fn \in BooleanWrappers /\ GotResult
        /\ ResultOf.t \in {"bool", "int", "float", "str"})
    => (outcome.kind = "return" /\ outcome.val.t = "bool")

\* the encodings of true and of false an endpoint may choose
TrueEncodings == {PyStrV(<<"t", "r", "u", "e">>), PyBoolV(TRUE), IntOf(1)}

FalseEncodings == {PyStrV(<<"f", "a", "l", "s", "e">>), PyBoolV(FALSE), IntOf(0)}

\* C12: in_sync, beacon_in_sync and is_last_block give the same boolean for
\* the string, native-boolean and integer encodings of a truth value: "true",
\* true and 1 yield True; "false", false and 0 yield False.
C12_TruthEncodingsAgree ==
    (WrapperDone /\ call.fn \in {"in_sync", "beacon_in_sync", "is_last_block"} /\ GotResult)
    => /\ ResultOf \in TrueEncodings => outcome = Return(PyBoolV(TRUE))
       /\ ResultOf \in FalseEncodings => outcome = Return(PyBoolV(FALSE))

C14_SingleAttempt == WrapperDone => Len(sent) = 1

C14_Witness ==
    /\ WrapperDone
    /\ call.fn = "get_blocks"
    /\ wire = NetFailure("refused")
    /\ outcome.kind = "raise"
    /\ Len(sent) = 1

(***************************************************************************)
(* Failed calls.                                                           *)
(***************************************************************************)
\* the "result" lacks the nested field the wrapper extracts
RequiredFieldAbsent ==
    /\ GotResult
    /\ \/ call.fn \in {"get_staking_epoch", "get_prestaking_epoch"} /\ ReceivedValue = <<>>
       \/ call.fn = "get_shard"
            /\ ~(ResultOf.t = "dict" /\ "shard-id" \in DOMAIN ResultOf.d)

\* C15: a failed call never returns a value: whenever the dispatcher raises,
\* the reply has no "result", or a required nested field ("chain-config",
\* the epoch key, "shard-id") is absent, the wrapper ends by raising; it
\* returns neither a partial value nor None.
C15_FailedCallRaises ==
    (WrapperDone /\ (\/ wire.kind \in TransportFailures
                     \/ GotObject /\ ~GotResult
                     \/ RequiredFieldAbsent))
    => outcome.kind = "raise"

C15_Witness ==
    /\ WrapperDone
    /\ call.fn = "get_shard"
    /\ GotResult
    /\ ResultOf = PyDictV([k \in {"chain-config"} |-> PyDictV(<<>>)])
    /\ outcome.kind = "raise"
    /\ outcome.exc.type = "InvalidRPCReplyError"

(***************************************************************************)
(* The request a wrapper sends.                                            *)
(***************************************************************************)
\* the options object built from the four flags of a block getter, given in
\* the order of the signature: full_tx, include_tx, include_staking_tx,
\* include_signers
OptionsObject(full_tx, include_tx, include_staking_tx, include_signers) ==
    PyDictV([k \in {"inclTx", "fullTx", "inclStaking", "withSigners"} |->
                CASE k = "inclTx"      -> include_tx
                  [] k = "fullTx"      -> full_tx
                  [] k = "inclStaking" -> include_staking_tx
                  [] k = "withSigners" -> include_signers])

\* C16: params are sent in the order the RPC method expects: get_blocks
\* sends [start_block, end_block, options], get_block_by_number
\* [block_num, options], get_block_by_hash [block_hash, options],
\* is_block_signer [block_num, address]; in options inclTx, fullTx,
\* inclStaking and withSigners carry include_tx, full_tx, include_staking_tx
\* and include_signers.
C16_ParamsInMethodOrder ==
    WrapperDone =>
        LET a == call.args
            p == sent[1].json.params
        IN  /\ call.fn = "get_blocks"
                => p = <<a[1], a[2], OptionsObject(a[3], a[4], a[5], a[6])>>
            /\ call.fn \in {"get_block_by_number", "get_block_by_hash"}
                => p = <<a[1], OptionsObject(a[2], a[3], a[4], a[5])>>
            /\ call.fn = "is_block_signer" => p = <<a[1], a[2]>>

C16_Witness ==
    /\ WrapperDone
    /\ call.fn = "get_blocks"
    /\ call.args = <<IntOf(1), IntOf(2), PyBoolV(FALSE), PyBoolV(TRUE), PyBoolV(FALSE), PyBoolV(FALSE)>>
    /\ sent[1].json.params[1] = IntOf(1)
    /\ sent[1].json.params[2] = IntOf(2)
    /\ sent[1].json.params[3].d["inclTx"] = PyBoolV(TRUE)
    /\ sent[1].json.params[3].d["fullTx"] = PyBoolV(FALSE)

\* the RPC method name of each wrapper
MethodOf(fn) ==
    CASE fn = "get_bad_blocks" -> "itcv2_getCurrentBadBlocks"
    [] fn = "chain_id" -> "itcv2_chainId"
    [] fn = "get_node_metadata" -> "itcv2_getNodeMetadata"
    [] fn = "get_peer_info" -> "itcv2_getPeerInfo"
    [] fn = "protocol_version" -> "itcv2_protocolVersion"
    [] fn = "get_num_peers" -> "net_peerCount"
    [] fn = "get_version" -> "net_version"
    [] fn = "in_sync" -> "itcv2_inSync"
    [] fn = "beacon_in_sync" -> "itcv2_beaconInSync"
    [] fn = "get_staking_epoch" -> "itcv2_getNodeMetadata"
    [] fn = "get_prestaking_epoch" -> "itcv2_getNodeMetadata"
    [] fn = "get_shard" -> "itcv2_getNodeMetadata"
    [] fn = "get_sharding_structure" -> "itcv2_getShardingStructure"
    [] fn = "get_leader_address" -> "itcv2_getLeader"
    [] fn = "is_last_block" -> "itcv2_isLastBlock"
    [] fn = "epoch_last_block" -> "itcv2_epochLastBlock"
    [] fn = "get_circulating_supply" -> "itcv2_getCirculatingSupply"
    [] fn = "get_total_supply" -> "itcv2_getTotalSupply"
    [] fn = "get_block_number" -> "itcv2_blockNumber"
    [] fn = "get_current_epoch" -> "itcv2_getEpoch"
    [] fn = "get_last_cross_links" -> "itcv2_getLastCrossLinks"
    [] fn = "get_gas_price" -> "itcv2_gasPrice"
    [] fn = "get_latest_header" -> "itcv2_latestHeader"
    [] fn = "get_header_by_number" -> "itcv2_getHeaderByNumber"
    [] fn = "get_latest_chain_headers" -> "itcv2_getLatestChainHeaders"
    [] fn = "get_block_by_number" -> "itcv2_getBlockByNumber"
    [] fn = "get_block_by_hash" -> "itcv2_getBlockByHash"
    [] fn = "get_block_transaction_count_by_number" -> "itcv2_getBlockTransactionCountByNumber"
    [] fn = "get_block_transaction_count_by_hash" -> "itcv2_getBlockTransactionCountByHash"
    [] fn = "get_block_staking_transaction_count_by_number" -> "itcv2_getBlockStakingTransactionCountByNumber"
    [] fn = "get_block_staking_transaction_count_by_hash" -> "itcv2_getBlockStakingTransactionCountByHash"
    [] fn = "get_blocks" -> "itcv2_getBlocks"
    [] fn = "get_block_signers" -> "itcv2_getBlockSigners"
    [] fn = "get_block_signers_keys" -> "itcv2_getBlockSignerKeys"
    [] fn = "is_block_signer" -> "itcv2_isBlockSigner"
    [] fn = "get_signed_blocks" -> "itcv2_getSignedBlocks"
    [] fn = "get_validators" -> "itcv2_getValidators"
    [] fn = "get_validator_keys" -> "itcv2_getValidatorKeys"

\* C17: each wrapper invokes the dispatcher with its own fixed RPC method
\* name, and an InvalidRPCReplyError it raises carries the name it sent;
\* get_staking_epoch, get_prestaking_epoch and get_shard all send and report
\* "itcv2_getNodeMetadata".
C17_FixedMethodName ==
    WrapperDone =>
        /\ sent[1].json.method = MethodOf(call.fn)
        /\ (outcome.kind = "raise" /\ outcome.exc.type = "InvalidRPCReplyError")
            => outcome.exc.args[1] = MethodOf(call.fn)

C17_Witness ==
    /\ WrapperDone
    /\ call.fn = "get_prestaking_epoch"
    /\ wire = NetJson(ResultReply(PyDictV(<<>>)))
    /\ sent[1].json.method = "itcv2_getNodeMetadata"
    /\ outcome.kind = "raise"
    /\ outcome.exc.type = "InvalidRPCReplyError"
    /\ outcome.exc.args[1] = "itcv2_getNodeMetadata"

(***************************************************************************)
(* Concurrent callers.  Several threads call the wrappers and converters;  *)
(* a wrapper call is suspended between sending its request and receiving   *)
(* the reply, and the steps of the threads interleave.                     *)
(***************************************************************************)
\* the call c, a record like the variable call, applied to its arguments
Apply(c, net) ==
    LET fn       == c.fn
        endpoint == Arg(c.endpoint, DEFAULT_ENDPOINT)
        timeout  == Arg(c.timeout, DEFAULT_TIMEOUT)
    IN  CASE fn = "convert_intelli_to_itc" -> [sent |-> <<>>, outcome |-> convert_intelli_to_itc(c.args[1])]
          [] fn = "convert_itc_to_intelli" -> [sent |-> <<>>, outcome |-> convert_itc_to_intelli(c.args[1])]
          [] fn = "get_bad_blocks" -> get_bad_blocks(endpoint, timeout, net)
          [] fn = "chain_id" -> chain_id(endpoint, timeout, net)
          [] fn = "get_node_metadata" -> get_node_metadata(endpoint, timeout, net)
          [] fn = "get_peer_info" -> get_peer_info(endpoint, timeout, net)
          [] fn = "protocol_version" -> protocol_version(endpoint, timeout, net)
          [] fn = "get_num_peers" -> get_num_peers(endpoint, timeout, net)
          [] fn = "get_version" -> get_version(endpoint, timeout, net)
          [] fn = "in_sync" -> in_sync(endpoint, timeout, net)
          [] fn = "beacon_in_sync" -> beacon_in_sync(endpoint, timeout, net)
          [] fn = "get_staking_epoch" -> get_staking_epoch(endpoint, timeout, net)
          [] fn = "get_prestaking_epoch" -> get_prestaking_epoch(endpoint, timeout, net)
          [] fn = "get_shard" -> get_shard(endpoint, timeout, net)
          [] fn = "get_sharding_structure" -> get_sharding_structure(endpoint, timeout, net)
          [] fn = "get_leader_address" -> get_leader_address(endpoint, timeout, net)
          [] fn = "is_last_block" -> is_last_block(c.args[1], endpoint, timeout, net)
          [] fn = "epoch_last_block" -> epoch_last_block(c.args[1], endpoint, timeout, net)
          [] fn = "get_circulating_supply" -> get_circulating_supply(endpoint, timeout, net)
          [] fn = "get_total_supply" -> get_total_supply(endpoint, timeout, net)
          [] fn = "get_block_number" -> get_block_number(endpoint, timeout, net)
          [] fn = "get_current_epoch" -> get_current_epoch(endpoint, timeout, net)
          [] fn = "get_last_cross_links" -> get_last_cross_links(endpoint, timeout, net)
          [] fn = "get_gas_price" -> get_gas_price(endpoint, timeout, net)
          [] fn = "get_latest_header" -> get_latest_header(endpoint, timeout, net)
          [] fn = "get_header_by_number" -> get_header_by_number(c.args[1], endpoint, timeout, net)
          [] fn = "get_latest_chain_headers" -> get_latest_chain_headers(endpoint, timeout, net)
          [] fn = "get_block_by_number" -> get_block_by_number(c.args[1], c.args[2], c.args[3], c.args[4], c.args[5], endpoint, timeout, net)
          [] fn = "get_block_by_hash" -> get_block_by_hash(c.args[1], c.args[2], c.args[3], c.args[4], c.args[5], endpoint, timeout, net)
          [] fn = "get_block_transaction_count_by_number" -> get_block_transaction_count_by_number(c.args[1], endpoint, timeout, net)
          [] fn = "get_block_transaction_count_by_hash" -> get_block_transaction_count_by_hash(c.args[1], endpoint, timeout, net)
          [] fn = "get_block_staking_transaction_count_by_number" -> get_block_staking_transaction_count_by_number(c.args[1], endpoint, timeout, net)
          [] fn = "get_block_staking_transaction_count_by_hash" -> get_block_staking_transaction_count_by_hash(c.args[1], endpoint, timeout, net)
          [] fn = "get_blocks" -> get_blocks(c.args[1], c.args[2], c.args[3], c.args[4], c.args[5], c.args[6], endpoint, timeout, net)
          [] fn = "get_block_signers" -> get_block_signers(c.args[1], endpoint, timeout, net)
          [] fn = "get_block_signers_keys" -> get_block_signers_keys(c.args[1], endpoint, timeout, net)
          [] fn = "is_block_signer" -> is_block_signer(c.args[1], c.args[2], endpoint, timeout, net)
          [] fn = "get_signed_blocks" -> get_signed_blocks(c.args[1], endpoint, timeout, net)
          [] fn = "get_validators" -> get_validators(c.args[1], endpoint, timeout, net)
          [] fn = "get_validator_keys" -> get_validator_keys(c.args[1], endpoint, timeout, net)

\* the wrapper calls the threads make: every wrapper, with one choice of
\* its own arguments
ThreadCalls ==
    {<<"get_bad_blocks", <<>>>>,
     <<"chain_id", <<>>>>,
     <<"get_node_metadata", <<>>>>,
     <<"get_peer_info", <<>>>>,
     <<"protocol_version", <<>>>>,
     <<"get_num_peers", <<>>>>,
     <<"get_version", <<>>>>,
     <<"in_sync", <<>>>>,
     <<"beacon_in_sync", <<>>>>,
     <<"get_staking_epoch", <<>>>>,
     <<"get_prestaking_epoch", <<>>>>,
     <<"get_shard", <<>>>>,
     <<"get_sharding_structure", <<>>>>,
     <<"get_leader_address", <<>>>>,
     <<"is_last_block", <<IntOf(1)>>>>,
     <<"epoch_last_block", <<IntOf(3)>>>>,
     <<"get_circulating_supply", <<>>>>,
     <<"get_total_supply", <<>>>>,
     <<"get_block_number", <<>>>>,
     <<"get_current_epoch", <<>>>>,
     <<"get_last_cross_links", <<>>>>,
     <<"get_gas_price", <<>>>>,
     <<"get_latest_header", <<>>>>,
     <<"get_header_by_number", <<IntOf(1)>>>>,
     <<"get_latest_chain_headers", <<>>>>,
     <<"get_block_by_number", <<IntOf(1), PyBoolV(FALSE), PyBoolV(TRUE), PyBoolV(FALSE), PyBoolV(FALSE)>>>>,
     <<"get_block_by_hash", <<PyStrV(<<"0", "x", "a", "b">>), PyBoolV(FALSE), PyBoolV(TRUE), PyBoolV(FALSE), PyBoolV(FALSE)>>>>,
     <<"get_block_transaction_count_by_number", <<IntOf(1)>>>>,
     <<"get_block_transaction_count_by_hash", <<PyStrV(<<"0", "x", "a", "b">>)>>>>,
     <<"get_block_staking_transaction_count_by_number", <<IntOf(1)>>>>,
     <<"get_block_staking_transaction_count_by_hash", <<PyStrV(<<"0", "x", "a", "b">>)>>>>,
     <<"get_blocks", <<IntOf(1), IntOf(2), PyBoolV(FALSE), PyBoolV(TRUE), PyBoolV(FALSE), PyBoolV(FALSE)>>>>,
     <<"get_block_signers", <<IntOf(1)>>>>,
     <<"get_block_signers_keys", <<IntOf(1)>>>>,
     <<"is_block_signer", <<IntOf(1), PyStrV(<<"i", "t", "c", "1">>)>>>>,
     <<"get_signed_blocks", <<PyStrV(<<"i", "t", "c", "1">>)>>>>,
     <<"get_validators", <<IntOf(3)>>>>,
     <<"get_validator_keys", <<IntOf(3)>>>>}

\* thread t calls a wrapper: the request goes out and the thread waits
T_Call(t) ==
    /\ threads[t].pc = "idle"
    /\ \E c \in ThreadCalls, ep \in EndpointArgs :
           threads' = [threads EXCEPT ![t] =
                          [Idle EXCEPT !.pc = "waiting",
                                       !.call = [fn |-> c[1], args |-> c[2],
                                                 endpoint |-> ep, timeout |-> <<>>]]]
    /\ UNCHANGED <<pc, call, wire, sent, outcome, conversion_unit>>

\* T_Reply with a cache of results shared by the threads: a call that another
\* thread has just completed is answered from that thread's result
T_Reply_cached(t) ==
    /\ threads[t].pc = "waiting"
    /\ \E net \in {NetFailure("timeout"), NetJson(ErrorReply),
                   NetJson(ResultReply(PyStrV(<<"0", "x", "1", "0">>))),
                   NetJson(ResultReply(PyBoolV(TRUE)))} :
           LET hits == {u \in Threads : /\ threads[u].pc = "done"
                                         /\ threads[u].call = threads[t].call}
               r    == IF hits = {} THEN Apply(threads[t].call, net)
                       ELSE LET u == CHOOSE u \in hits : TRUE
                            IN  [sent |-> threads[u].sent, outcome |-> threads[u].outcome]
           IN  threads' = [threads EXCEPT ![t] =
                              [@ EXCEPT !.pc = "done", !.wire = net,
                                        !.sent = r.sent, !.outcome = r.outcome]]
    /\ UNCHANGED <<pc, call, wire, sent, outcome, conversion_unit>>

\* the reply to waiting thread t arrives, or its request fails, and the
\* wrapper runs to its end
T_Reply(t) ==
    /\ threads[t].pc = "waiting"
    /\ \E net \in {NetFailure("timeout"), NetJson(ErrorReply),
                   NetJson(ResultReply(PyStrV(<<"0", "x", "1", "0">>))),
                   NetJson(ResultReply(PyBoolV(TRUE)))} :
           LET r == Apply(threads[t].call, net)
           IN  threads' = [threads EXCEPT ![t] =
                              [@ EXCEPT !.pc = "done", !.wire = net,
                                        !.sent = r.sent, !.outcome = r.outcome]]
    /\ UNCHANGED <<pc, call, wire, sent, outcome, conversion_unit>>

\* thread t calls a converter, which runs to its end without waiting
T_Convert(t) ==
    /\ threads[t].pc = "idle"
    /\ \E value \in {PyStrV(<<"1">>), Float_2_0, DecimalV(FALSE, <<1, 5>>, 0 - 1)} :
           \/ threads' = [threads EXCEPT ![t] =
                  [Idle EXCEPT !.pc = "done",
                               !.call.fn = "convert_intelli_to_itc", !.call.args = <<value>>,
                               !.outcome = convert_intelli_to_itc(value)]]
           \/ threads' = [threads EXCEPT ![t] =
                  [Idle EXCEPT !.pc = "done",
                               !.call.fn = "convert_itc_to_intelli", !.call.args = <<value>>,
                               !.outcome = convert_itc_to_intelli(value)]]
    /\ UNCHANGED <<pc, call, wire, sent, outcome, conversion_unit>>

\* the caller in thread t takes the outcome; nothing of the call is kept
T_Return(t) ==
    /\ threads[t].pc = "done"
    /\ threads' = [threads EXCEPT ![t] = Idle]
    /\ UNCHANGED <<pc, call, wire, sent, outcome, conversion_unit>>

ThreadNext == \E t \in Threads : T_Call(t) \/ T_Reply(t) \/ T_Convert(t) \/ T_Return(t)

ThreadSpec == Init /\ [][ThreadNext]_vars

\* C18: under any interleaving of wrapper and converter calls from several
\* threads, the outcome of each call is the one the same call with the same
\* reply has when it runs alone; a step of one thread leaves the state of
\* every other thread as it was, and the scale constant is never written.
C18_CallsAreIndependent ==
    /\ [](\A t \in Threads :
              threads[t].pc = "done"
              => LET alone == Apply(threads[t].call, threads[t].wire)
                 IN  threads[t].outcome = alone.outcome /\ threads[t].sent = alone.sent)
    /\ [][/\ conversion_unit' = conversion_unit
          /\ \A t, u \in Threads :
                 (t # u /\ threads'[t] # threads[t]) => threads'[u] = threads[u]]_vars

C18_Witness ==
    /\ threads["A"].pc = "done"
    /\ threads["A"].call.fn = "get_num_peers"
    /\ threads["A"].outcome = Return(IntOf(16))
    /\ threads["B"].pc = "done"
    /\ threads["B"].call.fn = "get_num_peers"
    /\ threads["B"].outcome.kind = "raise"
    /\ threads["B"].outcome.exc.type = "Timeout"

(***************************************************************************)
(* The scale.                                                              *)
(***************************************************************************)
\* C19: the conversion scale is exactly 10^18, the integer
\* 1000000000000000000 with nothing added by its construction from the float
\* literal 1e18, in every reachable state: no converter call changes it.
C19_ScaleIsExactlyTenToThe18 ==
    conversion_unit = DecimalV(FALSE, <<1>> \o Zeros(18), 0)

C19_Witness ==
    /\ ConverterDone("convert_itc_to_intelli")
    /\ call.args[1] = PyStrV(<<"1">>)
    /\ outcome = Return(DecimalV(FALSE, <<1>> \o Zeros(18), 0))
    /\ conversion_unit = DecimalV(FALSE, <<1>> \o Zeros(18), 0)

(***************************************************************************)
(* The dispatcher's failures.                                              *)
(***************************************************************************)
\* C20: a dispatcher call that exceeds the timeout fails with the kind
\* Timeout, a body that is not JSON with MalformedResponse, a connection
\* failure or non-success status with RequestFailed; no two of the three
\* causes are reported as the same kind.
C20_FailureKindsAreDistinct ==
    (WrapperDone /\ wire.kind \in TransportFailures)
    => /\ outcome.kind = "raise"
       /\ outcome.exc.type \in {"Timeout", "MalformedResponse", "RequestFailed"}
       /\ outcome.exc.type = "Timeout" <=> wire.kind = "timeout"
       /\ outcome.exc.type = "MalformedResponse" <=> wire.kind = "garbage"
       /\ outcome.exc.type = "RequestFailed" <=> wire.kind \in {"refused", "status"}

C20_Witness ==
    /\ WrapperDone
    /\ call.fn = "in_sync"
    /\ wire = NetFailure("garbage")
    /\ outcome.kind = "raise"
    /\ outcome.exc.type = "MalformedResponse"

C22_EpochWrappersReadChainConfig ==
    (WrapperDone /\ call.fn \in {"get_staking_epoch", "get_prestaking_epoch"} /\ GotResult)
    => /\ (ReceivedValue # <<>> /\ PyInt1(Return(ReceivedValue[1])).kind = "return")
           => outcome = PyInt1(Return(ReceivedValue[1]))
       /\ ReceivedValue = <<>>
           => /\ outcome.kind = "raise"
              /\ outcome.exc.type = "InvalidRPCReplyError"
              /\ outcome.exc.args = <<"itcv2_getNodeMetadata", EndpointOf(call)>>

C22_Witness ==
    /\ WrapperDone
    /\ call.fn = "get_prestaking_epoch"
    /\ GotResult
    /\ ResultOf = PyDictV([k \in {"chain-config"} |->
                              PyDictV([j \in {"prestaking-epoch"} |-> IntOf(185)])])
    /\ outcome = Return(IntOf(185))

\* C23: every wrapper hands the endpoint and timeout it was called with to the
\* dispatcher unchanged, DEFAULT_ENDPOINT and DEFAULT_TIMEOUT exactly when the
\* caller omitted them, and an InvalidRPCReplyError it raises carries that same
\* endpoint; this holds in every reachable state, so also for a call made
\* after calls that overrode the defaults.
C23_EndpointAndTimeoutPassThrough ==
    WrapperDone
    => /\ sent # <<>>
       /\ \A i \in 1..Len(sent) :
              /\ sent[i].url = (IF call.endpoint = <<>> THEN DEFAULT_ENDPOINT
                                                         ELSE call.endpoint[1])
              /\ sent[i].timeout = (IF call.timeout = <<>> THEN DEFAULT_TIMEOUT
                                                           ELSE call.timeout[1])
       /\ (outcome.kind = "raise" /\ outcome.exc.type = "InvalidRPCReplyError")
              => outcome.exc.args[2] = sent[1].url

C23_Witness ==
    /\ WrapperDone
    /\ call.fn = "is_last_block"
    /\ call.endpoint = <<"http://node.example:9500">>
    /\ call.timeout = <<>>
    /\ sent[1].url = "http://node.example:9500"
    /\ sent[1].timeout = DEFAULT_TIMEOUT
    /\ outcome.kind = "raise"
    /\ outcome.exc.type = "InvalidRPCReplyError"
    /\ outcome.exc.args = <<"itcv2_isLastBlock", "http://node.example:9500">>

\* the wrappers that return the "result" member as it is
UncoercedWrappers ==
    {"get_bad_blocks", "chain_id", "get_node_metadata", "get_peer_info",
     "protocol_version", "get_sharding_structure", "get_leader_address",
     "get_circulating_supply", "get_last_cross_links", "get_latest_header",
     "get_header_by_number", "get_latest_chain_headers", "get_block_by_number",
     "get_block_by_hash", "get_blocks", "get_block_signers",
     "get_block_signers_keys", "get_validators", "get_validator_keys"}

\* C24: a wrapper that applies no coercion returns the "result" value of the
\* response unchanged, whatever it is (null, a boolean, a number, a string, a
\* list or an object); the value returned is determined by the response
\* alone, so equal responses give equal values.
C24_UncoercedResultReturnedUnchanged ==
    (WrapperDone /\ call.fn \in UncoercedWrappers /\ GotResult)
    => outcome = Return(wire.value.d["result"])

C24_Witness ==
    /\ WrapperDone
    /\ call.fn = "get_validators"
    /\ GotResult
    /\ ResultOf = PyNone
    /\ outcome = Return(PyNone)

\* C25: get_num_peers and get_version accept only a string "result": when the
\* endpoint sends a native JSON number, null or any other value that is not a
\* string, they raise InvalidRPCReplyError (from the TypeError of int with an
\* explicit base) and never return that number.
C25_HexWrappersRejectNonStrings ==
    (WrapperDone /\ call.fn \in {"get_num_peers", "get_version"} /\ GotResult
        /\ ResultOf.t # "str")
    => /\ outcome.kind = "raise"
       /\ outcome.exc.type = "InvalidRPCReplyError"
       /\ outcome.exc.args = <<sent[1].json.method, EndpointOf(call)>>
       /\ outcome.exc.cause = "TypeError"

C25_Witness ==
    /\ WrapperDone
    /\ call.fn = "get_version"
    /\ GotResult
    /\ ResultOf = IntOf(16)
    /\ outcome.kind = "raise"
    /\ outcome.exc.type = "InvalidRPCReplyError"
    /\ outcome.exc.args[1] = "net_version"

\* amounts with a fractional part that are not floats
FractionalExactAmounts ==
    {PyStrV(<<"0", ".", "5">>), PyStrV(<<"1", ".", "5">>), DecimalV(FALSE, <<1, 5>>, 0 - 1)}

\* C26: convert_intelli_to_itc truncates floats only: a string or an exact
\* decimal with a fractional part ("0.5", "1.5", Decimal("1.5")) is divided by
\* 10^18 as it is, so Decimal("1.5") gives 1.5E-18 where the float 1.5 gives
\* 1E-18.
C26_OnlyFloatsAreTruncated ==
    (ConverterDone("convert_intelli_to_itc") /\ call.args[1] \in FractionalExactAmounts)
    => /\ outcome.kind = "return"
       /\ NumEq(outcome.val, OverScale(ExactValue(call.args[1])))

====
